---- MODULE Spec2Model ----
(***************************************************************************)
(* Model of the Apollo 2 serial speech-synthesizer driver                  *)
(* (addon/synthDrivers/apollo2/driver.py): the write scheduler, the read   *)
(* loop with the index-tracking state machine, the poll loop and the       *)
(* public operations speak(), cancel() and a parameter setter, running as  *)
(* concurrent threads over the shared write queue, generation counter,     *)
(* pending-index queue and serial handle.                                  *)
(*                                                                         *)
(* Granularity: one action per access to shared state that another thread  *)
(* can interleave with.  Code that only touches state private to its       *)
(* thread between two such accesses is folded into the neighbouring step.  *)
(* The device is the environment: it answers every index query that        *)
(* reaches the wire with one index response.                               *)
(* The variables listed under "history" record what happened (what was     *)
(* last written to the port, which notifications fired); the program does  *)
(* not read them.                                                          *)
(***************************************************************************)
EXTENDS Integers, Sequences, FiniteSets, TLC

\* ------------------------------------------------------------------ bounds
MaxSpeak == 2
MaxCancel == 2
MaxSetting == 1
MaxPoll == 1
MaxConnect == 2
MaxFailure == 1
\* Number of offline retries after which an item is certainly older than
\* _OFFLINE_WRITE_MAX_AGE_SECONDS (10.0 s at 0.25 s per retry in the program).
OfflineMaxRetries == 1
\* Total number of environment events (calls of the host, polls that find
\* speech pending, port failures) in one behaviour.
MaxEvents == 3

\* --------------------------------------------------------------- constants
INTERNAL_DONE_INDEX == -1
WRITE_CHUNK_SIZE == 64
NoSerial == 0

\* Text lengths a caller may pass to speak(): a single typed character and
\* a text long enough to need two chunks.
TextLengths == {1, 60}
\* Hex digits the device may send in an index response.
DeviceDigits == {"0", "1"}

VARIABLES
  \* ---- shared program state
  writeQueue,          \* self._writeQueue
  cancelGeneration,    \* self._cancelGeneration
  pendingIndexes,      \* self._pendingIndexes
  isSpeaking,          \* self._isSpeaking
  isWritingSpeech,     \* self._isWritingSpeech
  serial,              \* self._serial (NoSerial = None, k = k-th handle)
  needsSettingsSync,   \* self._needsSettingsSync
  settingsSyncQueued,  \* self._settingsSyncQueued
  settingsRevision,    \* self._settingsRevision
  connectThread,       \* a background connect thread has been started
  \* ---- the device
  deviceReplies,       \* index responses the device has yet to send
  \* ---- write thread
  wpc, item, ser, offset, startRevision,
  \* ---- read thread
  rpc, unitsRemaining, reached, shouldNotifyDone,
  \* ---- poll thread
  ppc,
  \* ---- caller thread
  cpc, speakArgs, autoCancel, wasSpeaking, hadPendingQueue, inFlightSpeech,
  cancelSer, preserved,
  \* ---- history
  nextId,          \* id of the next item passed to _queueWrite
  lastWrite,       \* the last write to the serial port
  maxWritten,      \* largest id of a non-mute item written so far
  wroteStale,      \* a chunk of the current item went out with a stale generation
  reported,        \* indexes passed to 'index reached', in order
  doneCount,       \* 'done speaking' notifications so far
  sent,            \* caller indexes appended to the pending queue, in order
  pendingGen,      \* generation of the item each pending index came from
  sweepIn,         \* items the current cancel() took from the queue
  sweepOut,        \* items the current cancel() put into the queue
  cancelFired,     \* 'done speaking' notifications of the current cancel()
  hadQueuedSpeech, \* a speech item was queued when the current cancel() began
  speakCount, cancelCount, settingCount, pollCount, connectCount, failureCount,
  \* ---- connection lifecycle (LifeSpec)
  stopEvent,               \* self._stopEvent
  didInitialConnectCheck,  \* self._didInitialConnectCheck
  connectLock,             \* holder of self._connectLock
  serialIoLock,            \* holder of self._serialIoLock
  lpc,           \* where each thread is
  lret,          \* where each thread's _disconnect/_ensureConnected returns to
  lser,          \* each thread's local `ser`
  busy,          \* the handle each thread has an I/O call in recovered on
  busyKind,      \* "read" or "write": the kind of that call
  connected,     \* what each thread's last _ensureConnected returned
  closed,        \* handles on which close() has been called
  queued,        \* non-cancelable items waiting in the write queue
  loadCount,     \* loadSettings() calls so far
  raised,        \* loadSettings() raised RuntimeError
  initialResult, \* outcome of the first bounded connect of loadSettings()
  terminated,    \* terminate() has returned
  closedUnderIo, \* kinds of I/O calls of other threads a close() overlapped
  wroteClosed,   \* a write began on a handle another thread had closed
  lateActs,      \* what workers did to the port after terminate() returned
  \* ---- the bounded connect (TimedSpec)
  now,               \* time.monotonic(), in ticks
  overallDeadline,   \* overallDeadline of the call
  probeDeadline,     \* deadline of the current probe's wait loop
  tpc,               \* where the call is
  tryNo,             \* which tryIndexingProbe of ensureIndexingAndProbe
  candLeft,          \* candidates the loop has yet to try
  sawBusyPortError,  \* sawBusyPortError
  connectResult,     \* what the call returned
  returnedAt,        \* when it returned
  \* ---- speak() composing its payload (SpeakSpec)
  upc,                      \* where speak() is
  speechSequence,           \* its argument
  pos,                      \* the item the loop is at
  spellMode,                \* self._spellMode
  expandNumbers,            \* self._expandNumbers
  outputParts,              \* outputParts, joined
  textBufferParts,          \* textBufferParts, joined
  charModeActive,           \* charModeActive
  needSpaceBeforeNextText,  \* needSpaceBeforeNextText
  pendingPitchBytes,        \* pendingPitchBytes (<<>> = None)
  indexList,                \* indexes
  enqueued,                 \* the items this call passed to the queue
  bufferItems,   \* positions of the non-empty texts in the text buffer
  flushedItems,  \* positions of the texts encoded so far
  unexpanded,    \* of these, the ones encoded without number expansion
  \* ---- voice parameters (ParamSpec)
  voice,                       \* self._voice
  rate,                        \* self._rate
  pitch,                       \* self._pitch
  volume,                      \* self._volume
  inflection,                  \* self._inflection
  voicing,                     \* self._voicing
  sentencePause,               \* self._sentencePause
  wordPause,                   \* self._wordPause
  markSpaceRatio,              \* self._markSpaceRatio
  speakerTable,                \* self._speakerTable
  voiceFilter,                 \* self._voiceFilter
  rom,                         \* self._rom
  formantDeltas,               \* self._formantDeltas
  formantDeltasApplied,        \* self._formantDeltasApplied
  needsSoftReset,              \* self._needsSoftReset
  softResetRequestedRevision,  \* self._softResetRequestedRevision
  needsRomSwitch,               \* self._needsRomSwitch
  \* ---- decoding an index response (IndexSpec)
  ixFunc,  \* the function called last
  ixBytes,  \* its two_ascii_hex_digits
  ixPending,  \* its pending_count
  ixResult,  \* what it returned; empty if it raised
  \* ---- formant diff commands (FormantSpec)
  fCalled,  \* get_formant_diff_commands has been called
  fDesired,  \* its desired
  fApplied,  \* its applied
  fCommands,  \* the list it returned
  \* ---- sanitizing a text (TextSpec)
  sCalled,  \* sanitize_text has been called
  sText,  \* its text
  sOut,  \* what it returned
  \* ---- the worker loops and the port's exceptions (LoopSpec)
  loopPc,  \* where each worker loop is
  loopItem,  \* the write loop's item
  pollSuspendUntil,  \* self._pollSuspendUntil, in ticks
  readFailure,  \* the read that raised in the read loop's last pass
  readDisconnected,  \* the port was unpublished when that pass ended
  failed,  \* the loops a serial call of which has raised
  recovered,  \* of these, the loops that have handled an item or byte since
  \* ---- the settings prefix (ParamSpec)
  sentFilter,  \* the voice-filter commands of the settings prefix written last
  voiceFilterSelected,  \* the host has set the voice filter
  \* ---- the connect backoff (BackoffSpec)
  connectBackoffUntil,  \* self._connectBackoffUntil, in ticks
  serialWriteTimeoutCount,  \* self._serialWriteTimeoutCount
  lastTimeout,  \* when the last write timeout was noted, and the count then
  \* ---- the device and the settings sync (SyncSpec)
  deviceFormants,  \* net formant adjustments the device holds since its last soft reset
  rebaselined,  \* a soft reset, ROM switch or disconnect came after the last settings prefix
  sentPrefix,  \* the settings prefix written last
  \* ---- the auto-cancel decision of speak()
  hasSpeech,  \* speak(): local hasSpeech
  speakHistory,  \* prior speech at each look of the speak() in progress, and the generation it started with
  \* ---- the engine's locks
  lockHeld,  \* for each lock, the thread that holds it and how many times
  lockPlan  \* for each thread, the lock steps left of the call it is in

shared == <<writeQueue, cancelGeneration, pendingIndexes, isSpeaking,
            isWritingSpeech, serial, needsSettingsSync, settingsSyncQueued,
            settingsRevision, connectThread, deviceReplies>>
writerVars == <<wpc, item, ser, offset, startRevision>>
readerVars == <<rpc, unitsRemaining, reached, shouldNotifyDone>>
pollVars == <<ppc>>
callerVars == <<cpc, speakArgs, autoCancel, wasSpeaking, hadPendingQueue,
                inFlightSpeech, cancelSer, preserved>>
history == <<nextId, lastWrite, maxWritten, wroteStale, reported, doneCount,
             sent, pendingGen, sweepIn, sweepOut, cancelFired,
             hadQueuedSpeech>>
counters == <<speakCount, cancelCount, settingCount, pollCount, connectCount,
              failureCount>>
lifeVars == <<stopEvent, didInitialConnectCheck, connectLock, serialIoLock,
              lpc, lret, lser, busy, busyKind, connected, closed, queued,
              loadCount, raised, initialResult, terminated, closedUnderIo,
              wroteClosed, lateActs>>
\* state of the other specifications of this module
timedVars == <<now, overallDeadline, probeDeadline, tpc, tryNo, candLeft,
               sawBusyPortError, connectResult, returnedAt>>
speakVars == <<upc, speechSequence, pos, spellMode, expandNumbers,
               outputParts, textBufferParts, charModeActive,
               needSpaceBeforeNextText, pendingPitchBytes, indexList, enqueued,
               bufferItems, flushedItems, unexpanded>>
paramVars == <<voice, rate, pitch, volume, inflection, voicing,
               sentencePause, wordPause, markSpaceRatio, speakerTable,
               voiceFilter, rom, formantDeltas, formantDeltasApplied,
               needsSoftReset, softResetRequestedRevision, needsRomSwitch>>
indexVars == <<ixFunc, ixBytes, ixPending, ixResult>>
formantVars == <<fCalled, fDesired, fApplied, fCommands>>
textVars == <<sCalled, sText, sOut>>
loopVars == <<loopPc, loopItem, pollSuspendUntil, readFailure,
              readDisconnected, failed, recovered>>
prefixVars == <<sentFilter, voiceFilterSelected>>
backoffVars == <<connectBackoffUntil, serialWriteTimeoutCount, lastTimeout>>
syncVars == <<deviceFormants, rebaselined, sentPrefix>>
autoVars == <<hasSpeech, speakHistory>>
lockVars == <<lockHeld, lockPlan>>
extra == <<lifeVars, timedVars, speakVars, paramVars, indexVars, formantVars, textVars, loopVars, prefixVars, backoffVars, syncVars, autoVars,
          lockVars>>
vars == <<shared, writerVars, readerVars, pollVars, callerVars, history,
          counters, extra>>

\* ----------------------------------------------------------------- helpers
Max(a, b) == IF a >= b THEN a ELSE b
Min(a, b) == IF a <= b THEN a ELSE b

\* _WriteItem.  data is the payload length in bytes; age counts the retry
\* sleeps since createdAt.
WriteItem(id, data, indexes, generation, cancelable, isSettingsSync, isMute) ==
  [id |-> id, data |-> data, indexes |-> indexes, generation |-> generation,
   age |-> 0, cancelable |-> cancelable, isSettingsSync |-> isSettingsSync,
   isMute |-> isMute]

NoItem == WriteItem(0, 0, <<>>, 0, FALSE, FALSE, FALSE)

IsSpeech(it) == it.indexes # <<>>

\* The index query queued by the poll loop.
IsQuery(it) == it.cancelable /\ it.indexes = <<>>

\* `writingSpeech = bool(item.indexes) and item.cancelable and bool(item.data)`
WritingSpeech(it) == it.indexes # <<>> /\ it.cancelable /\ it.data > 0

\* range(0, len(data), _WRITE_CHUNK_SIZE)
ChunkCount(data) == (data + WRITE_CHUNK_SIZE - 1) \div WRITE_CHUNK_SIZE

\* Payload sizes: "@W3 " + "@F8 " + text + "@I+ " per index mark + CR.
SpeechData(textChars, indexes) == 4 + 4 + textChars + 4 * Len(indexes) + 1
INDEX_QUERY_LEN == 3
SETTING_COMMAND_LEN == 4
MUTE_LEN == 5

\* cancel() is past `self._cancelGeneration += 1` and has not returned.
InCancelAfterBump ==
  cpc \in {"c_clear", "c_sweep", "c_mute", "c_restore", "c_notify",
           "c_return"}

\* Number of cancel() calls that have returned: each increments the
\* generation counter exactly once.
CancelsReturned == cancelGeneration - (IF InCancelAfterBump THEN 1 ELSE 0)

NoWrite == [id |-> 0, chunk |-> 0, cancelable |-> FALSE, isMute |-> FALSE,
            generation |-> 0, genAtWrite |-> 0, returned |-> 0, prevMax |-> 0,
            afterStale |-> FALSE]

\* The environment may still act: a host call, a poll or a port failure.
EventBudget ==
  speakCount + cancelCount + settingCount + pollCount + failureCount
    < MaxEvents

\* A port failure is still possible.
MayFail == failureCount < MaxFailure /\ EventBudget

\* --------------------------------------------- connection lifecycle state
\* The threads that touch the connection: the caller of the public methods,
\* the write thread, the read thread and the thread started by
\* _startBackgroundConnect.
Threads == {"caller", "writer", "reader", "connect"}
Free == "free"

\* SynthDriver.__init__ as far as the connection is concerned: no handle, no
\* lock held, the workers at the top of their loops, no connect thread.
LifeInit ==
  /\ stopEvent = FALSE
  /\ didInitialConnectCheck = FALSE
  /\ connectLock = Free
  /\ serialIoLock = Free
  /\ lpc = [t \in Threads |->
              CASE t = "caller" -> "idle"
                [] t = "writer" -> "w_get"
                [] t = "reader" -> "r_loop"
                [] OTHER -> "dead"]
  /\ lret = [t \in Threads |-> "none"]
  /\ lser = [t \in Threads |-> NoSerial]
  /\ busy = [t \in Threads |-> NoSerial]
  /\ busyKind = [t \in Threads |-> "none"]
  /\ connected = [t \in Threads |-> FALSE]
  /\ closed = {}
  /\ queued = 0
  /\ loadCount = 0
  /\ raised = FALSE
  /\ initialResult = "none"
  /\ terminated = FALSE
  /\ closedUnderIo = {}
  /\ wroteClosed = FALSE
  /\ lateActs = {}

\* ------------------------------------------------- bounded connect state
\* No bounded connect has been called.
TimedInit ==
  /\ now = 0 /\ overallDeadline = 0 /\ probeDeadline = 0
  /\ tpc = "idle" /\ tryNo = 1 /\ candLeft = 0
  /\ sawBusyPortError = FALSE
  /\ connectResult = FALSE /\ returnedAt = 0

\* --------------------------------------------------------- speak() state
\* No speak() is composing a payload; spell mode and number expansion are
\* off as in __init__.
SpeakInit ==
  /\ upc = "idle" /\ speechSequence = <<>> /\ pos = 1
  /\ spellMode = FALSE /\ expandNumbers = FALSE
  /\ outputParts = <<>> /\ textBufferParts = <<>>
  /\ charModeActive = FALSE /\ needSpaceBeforeNextText = FALSE
  /\ pendingPitchBytes = <<>> /\ indexList = <<>> /\ enqueued = <<>>
  /\ bufferItems = {} /\ flushedItems = {} /\ unexpanded = {}

\* ------------------------------------------------ voice parameter state
\* The defaults of __init__; strings are sequences of characters.
FormantCount == 10
ParamInit ==
  /\ voice = <<"1">>
  /\ rate = 3 /\ pitch = 8 /\ volume = 10 /\ inflection = 3
  /\ voicing = 8 /\ sentencePause = 11 /\ wordPause = 0
  /\ markSpaceRatio = 22
  /\ speakerTable = <<"0">> /\ voiceFilter = <<"0">> /\ rom = <<"1">>
  /\ formantDeltas = [i \in 0..(FormantCount - 1) |-> 0]
  /\ formantDeltasApplied = [i \in 0..(FormantCount - 1) |-> 0]
  /\ needsSoftReset = TRUE
  /\ softResetRequestedRevision = 0
  /\ needsRomSwitch = FALSE

\* ------------------------------------------------- index decoding state
\* Neither function of indexing.py has been called.
IndexInit ==
  /\ ixFunc = "none" /\ ixBytes = <<>> /\ ixPending = 0 /\ ixResult = {}

\* ------------------------------------------------ formant command state
\* get_formant_diff_commands has not been called.
FormantInit ==
  /\ fCalled = FALSE /\ fDesired = <<>> /\ fApplied = <<>> /\ fCommands = <<>>

\* ------------------------------------------------------ sanitizer state
\* sanitize_text has not been called.
TextInit ==
  /\ sCalled = FALSE /\ sText = <<>> /\ sOut = <<>>

\* --------------------------------------------------- worker loop state
\* The three loops have just been started.
LoopInit ==
  /\ loopPc = [w \in {"write", "read", "poll"} |->
                 IF w = "write" THEN "get" ELSE "top"]
  /\ loopItem = NoItem
  /\ pollSuspendUntil = 0
  /\ readFailure = "none" /\ readDisconnected = FALSE
  /\ failed = {} /\ recovered = {}

\* ------------------------------------------------ settings prefix state
\* No settings sync has been written and the host has selected no filter.
PrefixInit ==
  /\ sentFilter = <<>> /\ voiceFilterSelected = FALSE

\* ------------------------------------------------------- connect backoff
\* __init__: no backoff, no write timeout counted.
BackoffInit ==
  /\ connectBackoffUntil = 0 /\ serialWriteTimeoutCount = 0
  /\ lastTimeout = [at |-> 0, n |-> 0]

\* ----------------------------------------------------------- device state
\* The device at its baseline; nothing has been written.
SyncInit ==
  /\ deviceFormants = [i \in 0..(FormantCount - 1) |-> 0]
  /\ rebaselined = FALSE
  /\ sentPrefix = <<>>

\* The auto-cancel decision: speak() has not looked at anything.
AutoInit ==
  /\ hasSpeech = FALSE
  /\ speakHistory = [always |-> FALSE, ever |-> FALSE, generation |-> 0]

\* The locks: every lock is free and no thread is inside a call.
LockInit ==
  /\ lockHeld = [l \in {"connect", "serialIo", "serial", "index", "writeState",
                         "pollSuspend", "romInfo"} |->
                  [owner |-> "free", depth |-> 0]]
  /\ lockPlan = [t \in {"caller", "writer", "reader", "connect", "poll"} |-> <<>>]

\* ------------------------------------------------------------------- Init
\* SynthDriver.__init__: nothing queued, no connection, settings dirty.
Init ==
  /\ writeQueue = <<>>
  /\ cancelGeneration = 0
  /\ pendingIndexes = <<>>
  /\ isSpeaking = FALSE
  /\ isWritingSpeech = FALSE
  /\ serial = NoSerial
  /\ needsSettingsSync = TRUE
  /\ settingsSyncQueued = FALSE
  /\ settingsRevision = 0
  /\ connectThread = FALSE
  /\ deviceReplies = 0
  /\ wpc = "get" /\ item = NoItem /\ ser = NoSerial /\ offset = 0
  /\ startRevision = 0
  /\ rpc = "read" /\ unitsRemaining = 0 /\ reached = <<>>
  /\ shouldNotifyDone = FALSE
  /\ ppc = "check"
  /\ cpc = "idle" /\ speakArgs = <<0, <<>>>> /\ autoCancel = FALSE
  /\ wasSpeaking = FALSE /\ hadPendingQueue = FALSE
  /\ inFlightSpeech = FALSE /\ cancelSer = NoSerial /\ preserved = <<>>
  /\ nextId = 1 /\ lastWrite = NoWrite /\ maxWritten = 0
  /\ wroteStale = FALSE /\ reported = <<>> /\ doneCount = 0 /\ sent = <<>>
  /\ pendingGen = <<>>
  /\ sweepIn = <<>> /\ sweepOut = <<>> /\ cancelFired = 0
  /\ hadQueuedSpeech = FALSE
  /\ speakCount = 0 /\ cancelCount = 0 /\ settingCount = 0 /\ pollCount = 0
  /\ connectCount = 0 /\ failureCount = 0
  /\ LifeInit
  /\ TimedInit
  /\ SpeakInit
  /\ ParamInit
  /\ IndexInit
  /\ FormantInit
  /\ TextInit
  /\ LoopInit
  /\ PrefixInit
  /\ BackoffInit
  /\ SyncInit
  /\ AutoInit
  /\ LockInit

\* ------------------------------------------------------------ connection
\* _disconnect(): unpublish and close the handle, mark settings dirty and
\* clear the index state.
Disconnect ==
  /\ serial' = NoSerial
  /\ needsSettingsSync' = TRUE
  /\ pendingIndexes' = <<>>
  /\ pendingGen' = <<>>
  /\ isSpeaking' = FALSE

\* _ensureConnected() finding the device: a fresh handle is published.
\* (Its failure leaves the state as it is.)
CanConnect == connectCount < MaxConnect
NewHandle == connectCount + 1

\* The thread started by _startBackgroundConnect runs _ensureConnected.
BackgroundConnect ==
  /\ connectThread
  /\ connectThread' = FALSE
  /\ \/ /\ serial = NoSerial /\ CanConnect
        /\ serial' = NewHandle
        /\ connectCount' = connectCount + 1
     \/ UNCHANGED <<serial, connectCount>>
  /\ UNCHANGED <<writeQueue, cancelGeneration, pendingIndexes, isSpeaking,
                 isWritingSpeech, needsSettingsSync, settingsSyncQueued,
                 settingsRevision, deviceReplies>>
  /\ UNCHANGED <<writerVars, readerVars, pollVars, callerVars, history>>
  /\ UNCHANGED <<speakCount, cancelCount, settingCount, pollCount,
                 failureCount>>
  /\ UNCHANGED extra

\* ------------------------------------------------------------ write loop
WireEntry(it, chunk) ==
  [id |-> it.id, chunk |-> chunk, cancelable |-> it.cancelable,
   isMute |-> it.isMute, generation |-> it.generation,
   genAtWrite |-> cancelGeneration, returned |-> CancelsReturned,
   prevMax |-> maxWritten, afterStale |-> wroteStale]

\* The effect of a successful ser.write on the history variables and on
\* the device.
Written(it, chunk) ==
  /\ lastWrite' = WireEntry(it, chunk)
  /\ maxWritten' = IF it.isMute THEN maxWritten ELSE Max(maxWritten, it.id)
  /\ deviceReplies' = IF IsQuery(it) THEN deviceReplies + 1 ELSE deviceReplies

NotWritten == UNCHANGED <<lastWrite, maxWritten, deviceReplies>>

\* Variant of DequeueStale that forgets the cancelable test.
DequeueStale_AnyItem(it, gen) == it.generation # gen

\* `if item.cancelable and item.generation != self._cancelGeneration: continue`
DequeueStale(it, gen) == it.cancelable /\ it.generation # gen

\* Variant of ChunkStale that never finds a chunk stale.
ChunkStale_Never(it, gen) == FALSE

\* writeBytes: `if cancelable and generation != self._cancelGeneration`
ChunkStale(it, gen) == it.cancelable /\ it.generation # gen

\* Variant of MayExtend without the generation test.
MayExtend_Always(it, gen) == TRUE

\* `if not item.cancelable or item.generation == self._cancelGeneration`
MayExtend(it, gen) == ~it.cancelable \/ it.generation = gen

\* `item.indexes and item.indexes[-1] == _INTERNAL_DONE_INDEX`
HasDoneIndex(it) ==
  it.indexes # <<>> /\ it.indexes[Len(it.indexes)] = INTERNAL_DONE_INDEX

\* A writer that never finds an item too old.
CertainlyOld_Never(it) == FALSE

\* `time.monotonic() - item.createdAt > _OFFLINE_WRITE_MAX_AGE_SECONDS`:
\* certainly true after more than OfflineMaxRetries sleeps, possibly earlier
\* (time also passes while the item waits in the queue).
CertainlyOld(it) == it.age > OfflineMaxRetries

WriterIdle ==
  /\ wpc' = "get" /\ item' = NoItem /\ ser' = NoSerial /\ offset' = 0
  /\ wroteStale' = FALSE

\* item = self._writeQueue.get() and the staleness test that follows it.
WGet ==
  /\ wpc = "get" /\ writeQueue # <<>>
  /\ writeQueue' = Tail(writeQueue)
  /\ LET it == Head(writeQueue) IN
       IF DequeueStale(it, cancelGeneration)
       THEN UNCHANGED <<wpc, item>>
       ELSE /\ item' = it
            /\ wpc' = IF it.isMute THEN "mute"
                      ELSE IF it.isSettingsSync THEN "sync" ELSE "normal"
  /\ UNCHANGED <<cancelGeneration, pendingIndexes, isSpeaking,
                 isWritingSpeech, serial, needsSettingsSync,
                 settingsSyncQueued, settingsRevision, connectThread,
                 deviceReplies>>
  /\ UNCHANGED <<ser, offset, startRevision>>
  /\ UNCHANGED <<readerVars, pollVars, callerVars, history, counters>>
  /\ UNCHANGED extra

\* `if item.isMute:` -- written whole under the I/O lock, no generation test.
WMute ==
  /\ wpc = "mute"
  /\ WriterIdle
  /\ \/ /\ serial = NoSerial
        /\ NotWritten
        /\ UNCHANGED <<serial, needsSettingsSync, pendingIndexes, pendingGen,
                       isSpeaking, failureCount>>
     \/ /\ serial # NoSerial
        /\ Written(item, 0)
        /\ UNCHANGED <<serial, needsSettingsSync, pendingIndexes, pendingGen,
                       isSpeaking, failureCount>>
     \/ /\ serial # NoSerial /\ MayFail
        /\ failureCount' = failureCount + 1
        /\ Disconnect
        /\ NotWritten
  /\ UNCHANGED <<writeQueue, cancelGeneration, isWritingSpeech,
                 settingsSyncQueued, settingsRevision, connectThread>>
  /\ UNCHANGED <<startRevision, readerVars, pollVars, callerVars>>
  /\ UNCHANGED <<nextId, reported, doneCount, sent, sweepIn, sweepOut,
                 cancelFired, hadQueuedSpeech>>
  /\ UNCHANGED <<speakCount, cancelCount, settingCount, pollCount,
                 connectCount>>
  /\ UNCHANGED extra

\* `if item.isSettingsSync:` -- one turn of the coalescing loop.  The loop
\* ends when no sync is needed (the finally clause then publishes
\* _settingsSyncQueued); without a connection it connects; with one it
\* writes the settings prefix built from the live settings.  The separate
\* soft-reset and ROM writes of the same turn are part of this write.
WSync ==
  /\ wpc = "sync"
  /\ \/ /\ ~needsSettingsSync
        /\ settingsSyncQueued' = needsSettingsSync
        /\ WriterIdle
        /\ NotWritten
        /\ UNCHANGED <<serial, needsSettingsSync, pendingIndexes, pendingGen,
                       isSpeaking, startRevision, connectCount, failureCount>>
     \/ /\ needsSettingsSync /\ serial = NoSerial /\ CanConnect
        /\ serial' = NewHandle
        /\ connectCount' = connectCount + 1
        /\ NotWritten
        /\ UNCHANGED <<wpc, item, ser, offset, wroteStale, settingsSyncQueued,
                       needsSettingsSync, pendingIndexes, pendingGen,
                       isSpeaking, startRevision, failureCount>>
     \/ /\ needsSettingsSync /\ serial # NoSerial
        /\ startRevision' = settingsRevision
        /\ Written(item, 0)
        /\ wpc' = "sync_done"
        /\ UNCHANGED <<item, ser, offset, wroteStale, settingsSyncQueued,
                       serial, needsSettingsSync, pendingIndexes, pendingGen,
                       isSpeaking, connectCount, failureCount>>
     \/ /\ needsSettingsSync /\ serial # NoSerial
        /\ MayFail
        /\ failureCount' = failureCount + 1
        /\ Disconnect
        /\ NotWritten
        /\ UNCHANGED <<wpc, item, ser, offset, wroteStale, settingsSyncQueued,
                       startRevision, connectCount>>
  /\ UNCHANGED <<writeQueue, cancelGeneration, isWritingSpeech,
                 settingsRevision, connectThread>>
  /\ UNCHANGED <<readerVars, pollVars, callerVars>>
  /\ UNCHANGED <<nextId, reported, doneCount, sent, sweepIn, sweepOut,
                 cancelFired, hadQueuedSpeech>>
  /\ UNCHANGED <<speakCount, cancelCount, settingCount, pollCount>>
  /\ UNCHANGED extra

\* `self._needsSettingsSync = self._settingsRevision != startRevision`
WSyncDone ==
  /\ wpc = "sync_done"
  /\ needsSettingsSync' = (settingsRevision # startRevision)
  /\ wpc' = "sync"
  /\ UNCHANGED <<writeQueue, cancelGeneration, pendingIndexes, isSpeaking,
                 isWritingSpeech, serial, settingsSyncQueued,
                 settingsRevision, connectThread, deviceReplies>>
  /\ UNCHANGED <<item, ser, offset, startRevision>>
  /\ UNCHANGED <<readerVars, pollVars, callerVars, history, counters>>
  /\ UNCHANGED extra

\* An ordinary item is due (`ser = self._getSerial()` onwards).  Without a
\* connection: an old cancelable item is dropped, with 'done speaking' if it
\* ends an utterance; otherwise a connection is attempted, and on failure
\* the item is put back at the tail of the queue after the retry sleep.
\* With a connection the item is marked as speech being written.
WNormal ==
  /\ wpc = "normal"
  /\ \/ /\ serial = NoSerial /\ item.cancelable
        /\ doneCount' = IF HasDoneIndex(item) THEN doneCount + 1
                        ELSE doneCount
        /\ WriterIdle
        /\ UNCHANGED <<writeQueue, serial, isWritingSpeech, connectCount>>
     \/ /\ serial = NoSerial
        /\ ~(item.cancelable /\ CertainlyOld(item))
        /\ writeQueue' = Append(writeQueue,
             [item EXCEPT !.age = Min(item.age + 1, OfflineMaxRetries + 1)])
        /\ WriterIdle
        /\ UNCHANGED <<doneCount, serial, isWritingSpeech, connectCount>>
     \/ /\ serial = NoSerial /\ CanConnect
        /\ ~(item.cancelable /\ CertainlyOld(item))
        /\ serial' = NewHandle
        /\ connectCount' = connectCount + 1
        /\ ser' = NewHandle
        /\ isWritingSpeech' = (isWritingSpeech \/ WritingSpeech(item))
        /\ wpc' = IF item.cancelable THEN "check" ELSE "flush"
        /\ UNCHANGED <<writeQueue, doneCount, item, offset, wroteStale>>
     \/ /\ serial # NoSerial
        /\ ser' = serial
        /\ isWritingSpeech' = (isWritingSpeech \/ WritingSpeech(item))
        /\ wpc' = IF item.cancelable THEN "check" ELSE "flush"
        /\ UNCHANGED <<writeQueue, doneCount, item, offset, wroteStale,
                       serial, connectCount>>
  /\ UNCHANGED <<cancelGeneration, pendingIndexes, isSpeaking,
                 needsSettingsSync, settingsSyncQueued, settingsRevision,
                 connectThread, deviceReplies, startRevision>>
  /\ UNCHANGED <<readerVars, pollVars, callerVars>>
  /\ UNCHANGED <<nextId, lastWrite, maxWritten, reported, sent, pendingGen,
                 sweepIn, sweepOut, cancelFired, hadQueuedSpeech>>
  /\ UNCHANGED <<speakCount, cancelCount, settingCount, pollCount,
                 failureCount>>
  /\ UNCHANGED extra

\* Where the writer goes when writeBytes returns: speech items run the
\* finally clause, other items are done.
AfterWrite ==
  IF IsSpeech(item)
  THEN wpc' = "fin_flag" /\ UNCHANGED <<item, ser, offset, wroteStale>>
  ELSE WriterIdle

\* writeBytes, cancelable item: the generation test made under the I/O lock
\* before each chunk.
WCheck ==
  /\ wpc = "check"
  /\ IF ChunkStale(item, cancelGeneration)
     THEN AfterWrite
     ELSE wpc' = "write" /\ UNCHANGED <<item, ser, offset, wroteStale>>
  /\ UNCHANGED <<shared, startRevision, readerVars, pollVars, callerVars,
                 counters>>
  /\ UNCHANGED <<nextId, lastWrite, maxWritten, reported, doneCount, sent,
                 pendingGen, sweepIn, sweepOut, cancelFired, hadQueuedSpeech>>
  /\ UNCHANGED extra

\* writeBytes, cancelable item: ser.write(chunk).  The write fails when the
\* port reports an error; a handle that another thread has disconnected may
\* still take the chunk or fail.  A failure runs _disconnect().
WWrite ==
  /\ wpc = "write"
  /\ \/ /\ Written(item, offset)
        /\ IF offset + 1 < ChunkCount(item.data)
           THEN /\ offset' = offset + 1 /\ wpc' = "check"
                /\ wroteStale' =
                     (wroteStale \/ item.generation # cancelGeneration)
                /\ UNCHANGED <<item, ser>>
           ELSE AfterWrite
        /\ UNCHANGED <<serial, needsSettingsSync, pendingIndexes, pendingGen,
                       isSpeaking, failureCount>>
     \/ /\ \/ ser # serial /\ UNCHANGED failureCount
           \/ /\ ser = serial /\ MayFail
              /\ failureCount' = failureCount + 1
        /\ Disconnect
        /\ AfterWrite
        /\ NotWritten
  /\ UNCHANGED <<writeQueue, cancelGeneration, isWritingSpeech,
                 settingsSyncQueued, settingsRevision, connectThread,
                 startRevision>>
  /\ UNCHANGED <<readerVars, pollVars, callerVars>>
  /\ UNCHANGED <<nextId, reported, doneCount, sent, sweepIn, sweepOut,
                 cancelFired, hadQueuedSpeech>>
  /\ UNCHANGED <<speakCount, cancelCount, settingCount, pollCount,
                 connectCount>>
  /\ UNCHANGED extra

\* writeBytes with flush=True (non-cancelable item): every chunk and the
\* flush inside one hold of the I/O lock.
WFlush ==
  /\ wpc = "flush"
  /\ \/ /\ Written(item, 0)
        /\ UNCHANGED <<serial, needsSettingsSync, pendingIndexes, pendingGen,
                       isSpeaking, failureCount>>
     \/ /\ \/ ser # serial /\ UNCHANGED failureCount
           \/ /\ ser = serial /\ MayFail
              /\ failureCount' = failureCount + 1
        /\ Disconnect
        /\ NotWritten
  /\ AfterWrite
  /\ UNCHANGED <<writeQueue, cancelGeneration, isWritingSpeech,
                 settingsSyncQueued, settingsRevision, connectThread,
                 startRevision>>
  /\ UNCHANGED <<readerVars, pollVars, callerVars>>
  /\ UNCHANGED <<nextId, reported, doneCount, sent, sweepIn, sweepOut,
                 cancelFired, hadQueuedSpeech>>
  /\ UNCHANGED <<speakCount, cancelCount, settingCount, pollCount,
                 connectCount>>
  /\ UNCHANGED extra

\* finally: `self._isWritingSpeech = False`
WFinFlag ==
  /\ wpc = "fin_flag"
  /\ isWritingSpeech' = FALSE
  /\ wpc' = "fin_index"
  /\ UNCHANGED <<writeQueue, cancelGeneration, pendingIndexes, isSpeaking,
                 serial, needsSettingsSync, settingsSyncQueued,
                 settingsRevision, connectThread, deviceReplies>>
  /\ UNCHANGED <<item, ser, offset, startRevision>>
  /\ UNCHANGED <<readerVars, pollVars, callerVars, history, counters>>
  /\ UNCHANGED extra

\* finally: under the index lock, the item's indexes join the pending queue
\* if its generation is still current.
WFinIndex ==
  /\ wpc = "fin_index"
  /\ IF MayExtend(item, cancelGeneration)
     THEN /\ pendingIndexes' = pendingIndexes \o item.indexes
          /\ pendingGen' = pendingGen \o
               [i \in 1..Len(item.indexes) |-> item.generation]
          /\ isSpeaking' = TRUE
          /\ sent' = sent \o SelectSeq(item.indexes, LAMBDA i : i >= 0)
     ELSE UNCHANGED <<pendingIndexes, pendingGen, isSpeaking, sent>>
  /\ WriterIdle
  /\ UNCHANGED <<writeQueue, cancelGeneration, isWritingSpeech, serial,
                 needsSettingsSync, settingsSyncQueued, settingsRevision,
                 connectThread, deviceReplies, startRevision>>
  /\ UNCHANGED <<readerVars, pollVars, callerVars, counters>>
  /\ UNCHANGED <<nextId, lastWrite, maxWritten, reported, doneCount, sweepIn,
                 sweepOut, cancelFired, hadQueuedSpeech>>
  /\ UNCHANGED extra

\* ------------------------------------------------------------- read loop
\* ---- str.strip(), str.lower() and int(text, base)
Whitespace == {" ", "\t", "\n", "\r"}

RECURSIVE LStrip(_)
LStrip(text) ==
  IF text # <<>> /\ Head(text) \in Whitespace THEN LStrip(Tail(text))
  ELSE text

RECURSIVE RStrip(_)
RStrip(text) ==
  IF text # <<>> /\ text[Len(text)] \in Whitespace
  THEN RStrip(SubSeq(text, 1, Len(text) - 1))
  ELSE text

Strip(text) == RStrip(LStrip(text))

HexChars == <<"0", "1", "2", "3", "4", "5", "6", "7", "8", "9",
              "a", "b", "c", "d", "e", "f">>
UpperChars == <<"A", "B", "C", "D", "E", "F", "X">>
LowerChars == <<"a", "b", "c", "d", "e", "f", "x">>

Lower(c) ==
  IF \E i \in 1..Len(UpperChars) : UpperChars[i] = c
  THEN LowerChars[CHOOSE i \in 1..Len(UpperChars) : UpperChars[i] = c]
  ELSE c

\* the value of a digit in a base, as a set: empty if it is not one
DigitValue(c, base) == {i - 1 : i \in {j \in 1..base : HexChars[j] = Lower(c)}}

IsDigits(text, base) ==
  /\ text # <<>>
  /\ \A i \in 1..Len(text) : DigitValue(text[i], base) # {}

RECURSIVE DigitsValue(_, _, _)
DigitsValue(text, base, acc) ==
  IF text = <<>> THEN acc
  ELSE DigitsValue(Tail(text), base,
                   acc * base + (CHOOSE d \in DigitValue(Head(text), base) : TRUE))

StartsWith0x(text) ==
  Len(text) >= 2 /\ text[1] = "0" /\ Lower(text[2]) = "x"

\* int(text, base), as a set: empty where int() raises ValueError.  An
\* optional sign, for base 16 an optional 0x, then digits; blanks around
\* the number are ignored.
ParseInt(text, base) ==
  LET t == Strip(text)
      signed == t # <<>> /\ t[1] \in {"+", "-"}
      body == IF signed THEN Tail(t) ELSE t
      digits == IF base = 16 /\ StartsWith0x(body)
                THEN SubSeq(body, 3, Len(body)) ELSE body
      v == DigitsValue(digits, base, 0)
  IN IF IsDigits(digits, base)
     THEN {IF signed /\ t[1] = "-" THEN 0 - v ELSE v}
     ELSE {}

\* ---- indexing.py
\* bytes are one-character strings; "x80" stands for a byte that is not
\* ASCII, on which decode("ascii") raises.  A function that can raise
\* returns a set: the value, or nothing where it raises.

\* decode_swapped_hex_byte: `int(bytes((b[1], b[0])).upper().decode(), 16)`
decode_swapped_hex_byte(two_ascii_hex_digits) ==
  IF Len(two_ascii_hex_digits) # 2 THEN {}
  ELSE ParseInt(<<two_ascii_hex_digits[2], two_ascii_hex_digits[1]>>, 16)

\* Variant of decode_index_counter that reads the digits in one order only.
decode_index_counter_NormalOnly(two_ascii_hex_digits, pending_count) ==
  IF Len(two_ascii_hex_digits) # 2 THEN {}
  ELSE LET n == ParseInt(two_ascii_hex_digits, 16)
       IN {IF n = {} THEN 0 ELSE CHOOSE v \in n : TRUE}

\* Variant of decode_index_counter that prefers the smaller candidate.
decode_index_counter_Smaller(two_ascii_hex_digits, pending_count) ==
  IF Len(two_ascii_hex_digits) # 2 THEN {}
  ELSE LET n == ParseInt(two_ascii_hex_digits, 16)
           normal == IF n = {} THEN 0 ELSE CHOOSE v \in n : TRUE
       IN {Min(normal, 16 * (normal % 16) + normal \div 16)}

\* decode_index_counter: both readings of the two digits, a reading that
\* raises replaced (normal by 0, swapped by normal); the larger of those
\* within 0..pending_count, else the smaller of the two.
decode_index_counter(two_ascii_hex_digits, pending_count) ==
  IF Len(two_ascii_hex_digits) # 2 THEN {}
  ELSE LET n == ParseInt(two_ascii_hex_digits, 16)
           normal == IF n = {} THEN 0 ELSE CHOOSE v \in n : TRUE
           s == decode_swapped_hex_byte(two_ascii_hex_digits)
           swapped == IF s = {} THEN normal ELSE CHOOSE v \in s : TRUE
           candidates_in_range ==
             {v \in {normal, swapped} : 0 <= v /\ v <= pending_count}
       IN  IF candidates_in_range # {}
           THEN {CHOOSE m \in candidates_in_range :
                   \A v \in candidates_in_range : v <= m}
           ELSE {Min(normal, swapped)}

\* Variant of PopIndex that pops the newest index (pop() for popleft()).
PopIndex_Newest(pending) ==
  <<pending[Len(pending)], SubSeq(pending, 1, Len(pending) - 1)>>

\* `self._pendingIndexes.popleft()`: the index taken and the queue left.
PopIndex(pending) == <<Head(pending), Tail(pending)>>

\* `while unitsRemaining < len(self._pendingIndexes): reached.append(...)`
RECURSIVE PopReached(_, _, _)
PopReached(u, pending, acc) ==
  IF u < Len(pending)
  THEN LET p == PopIndex(pending) IN PopReached(u, p[2], Append(acc, p[1]))
  ELSE <<pending, acc>>

\* Variant of ShouldReport without the sentinel filter.
ShouldReport_All(index) == TRUE

\* `if index >= 0:` -- which reached indexes the host is told about.
ShouldReport(index) == index >= 0

\* One pass of the loop body up to the call of _onUnitsRemaining: a read
\* failure disconnects; an index response is decoded against the current
\* pending count.
RRead ==
  /\ rpc = "read" /\ serial # NoSerial
  /\ \/ /\ deviceReplies > 0
        /\ deviceReplies' = deviceReplies - 1
        /\ \E d0 \in DeviceDigits, d1 \in DeviceDigits :
             unitsRemaining' \in
               decode_index_counter(<<d0, d1>>, Len(pendingIndexes))
        /\ rpc' = "units"
        /\ UNCHANGED <<serial, needsSettingsSync, pendingIndexes, pendingGen,
                       isSpeaking, failureCount>>
     \/ /\ MayFail
        /\ failureCount' = failureCount + 1
        /\ Disconnect
        /\ UNCHANGED <<rpc, unitsRemaining, deviceReplies>>
  /\ UNCHANGED <<writeQueue, cancelGeneration, isWritingSpeech,
                 settingsSyncQueued, settingsRevision, connectThread>>
  /\ UNCHANGED <<reached, shouldNotifyDone>>
  /\ UNCHANGED <<writerVars, pollVars, callerVars>>
  /\ UNCHANGED <<nextId, lastWrite, maxWritten, wroteStale, reported,
                 doneCount, sent, sweepIn, sweepOut, cancelFired,
                 hadQueuedSpeech>>
  /\ UNCHANGED <<speakCount, cancelCount, settingCount, pollCount,
                 connectCount>>
  /\ UNCHANGED extra

\* _onUnitsRemaining, the part under the index lock.
ROnUnitsRemaining ==
  /\ rpc = "units"
  /\ LET r == PopReached(unitsRemaining, pendingIndexes, <<>>)
         done == isSpeaking /\ r[1] = <<>>
     IN /\ pendingIndexes' = r[1]
        /\ pendingGen' = SubSeq(pendingGen, Len(r[2]) + 1, Len(pendingGen))
        /\ reached' = r[2]
        /\ isSpeaking' = IF done THEN FALSE ELSE isSpeaking
        /\ shouldNotifyDone' = done
        /\ rpc' = IF r[2] = <<>> /\ ~done THEN "read" ELSE "notify"
  /\ unitsRemaining' = 0
  /\ UNCHANGED <<writeQueue, cancelGeneration, isWritingSpeech, serial,
                 needsSettingsSync, settingsSyncQueued, settingsRevision,
                 connectThread, deviceReplies>>
  /\ UNCHANGED <<writerVars, pollVars, callerVars, counters>>
  /\ UNCHANGED <<nextId, lastWrite, maxWritten, wroteStale, reported,
                 doneCount, sent, sweepIn, sweepOut, cancelFired,
                 hadQueuedSpeech>>
  /\ UNCHANGED extra

\* _onUnitsRemaining, after the lock: the notifications.
RNotify ==
  /\ rpc = "notify"
  /\ reported' = reported \o SelectSeq(reached, ShouldReport)
  /\ doneCount' = IF shouldNotifyDone THEN doneCount + 1 ELSE doneCount
  /\ reached' = <<>>
  /\ shouldNotifyDone' = FALSE
  /\ rpc' = "read"
  /\ UNCHANGED unitsRemaining
  /\ UNCHANGED <<shared, writerVars, pollVars, callerVars, counters>>
  /\ UNCHANGED <<nextId, lastWrite, maxWritten, wroteStale, sent, pendingGen,
                 sweepIn, sweepOut, cancelFired, hadQueuedSpeech>>
  /\ UNCHANGED extra

\* ------------------------------------------------------------- poll loop
\* `shouldPoll = self._isSpeaking or bool(self._pendingIndexes)`
PCheck ==
  /\ ppc = "check" /\ pollCount < MaxPoll /\ EventBudget
  /\ isSpeaking \/ pendingIndexes # <<>>
  /\ ppc' = "enqueue"
  /\ pollCount' = pollCount + 1
  /\ UNCHANGED <<shared, writerVars, readerVars, callerVars, history>>
  /\ UNCHANGED <<speakCount, cancelCount, settingCount, connectCount,
                 failureCount>>
  /\ UNCHANGED extra

\* `if shouldPoll and self._getSerial() is not None: self._queueWrite(query)`
PEnqueue ==
  /\ ppc = "enqueue"
  /\ ppc' = "check"
  /\ IF serial # NoSerial
     THEN /\ writeQueue' = Append(writeQueue,
               WriteItem(nextId, INDEX_QUERY_LEN, <<>>, cancelGeneration,
                         TRUE, FALSE, FALSE))
          /\ nextId' = nextId + 1
     ELSE UNCHANGED <<writeQueue, nextId>>
  /\ UNCHANGED <<cancelGeneration, pendingIndexes, isSpeaking,
                 isWritingSpeech, serial, needsSettingsSync,
                 settingsSyncQueued, settingsRevision, connectThread,
                 deviceReplies>>
  /\ UNCHANGED <<writerVars, readerVars, callerVars, counters>>
  /\ UNCHANGED <<lastWrite, maxWritten, wroteStale, reported, doneCount,
                 sent, pendingGen, sweepIn, sweepOut, cancelFired,
                 hadQueuedSpeech>>
  /\ UNCHANGED extra

\* ---------------------------------------------------------- caller thread
\* Variant of ShouldPreserve that keeps queued mute items as well.
ShouldPreserve_Mutes(it) == ~it.cancelable

\* `if item is None or (not item.cancelable and not item.isMute)`
ShouldPreserve(it) == ~it.cancelable /\ ~it.isMute

\* `if ser is not None and (wasSpeaking or hadPendingQueue or inFlightSpeech)`
ShouldMute(s, was, had, inFlight) ==
  s # NoSerial /\ (was \/ had \/ inFlight)

\* `if wasSpeaking: synthDoneSpeaking.notify(synth=self)`
ShouldNotifyCancel(was, had, inFlight) == was

\* _queueSettingsSync(): the placeholder item it queues, if any.
SyncItems(needs) ==
  IF needs /\ ~settingsSyncQueued
  THEN <<WriteItem(nextId, 0, <<>>, cancelGeneration, FALSE, TRUE, FALSE)>>
  ELSE <<>>

\* cancel(), first lock: the index state and whether the queue is empty.
CancelReadIndex ==
  /\ wasSpeaking' = (isSpeaking \/ pendingIndexes # <<>>)
  /\ hadPendingQueue' = (writeQueue # <<>>)
  /\ hadQueuedSpeech' =
       (\E i \in 1..Len(writeQueue) : IsSpeech(writeQueue[i]))
  /\ sweepIn' = <<>> /\ sweepOut' = <<>> /\ cancelFired' = 0
  /\ cpc' = "c_bump"

\* speak(), the auto-cancel decision: a sequence with more than one text
\* character cancels speech that is being written, speaking or queued.
Speak ==
  /\ cpc = "idle" /\ speakCount < MaxSpeak /\ EventBudget
  /\ speakCount' = speakCount + 1
  /\ \E textChars \in TextLengths, withIndex \in BOOLEAN :
       /\ speakArgs' = <<textChars,
                         IF withIndex
                         THEN <<speakCount + 1, INTERNAL_DONE_INDEX>>
                         ELSE <<INTERNAL_DONE_INDEX>>>>
       /\ IF textChars > 1
             /\ (isWritingSpeech \/ isSpeaking \/ pendingIndexes # <<>>
                 \/ writeQueue # <<>>)
          THEN autoCancel' = TRUE /\ cpc' = "c_index"
          ELSE autoCancel' = FALSE /\ cpc' = "s_enqueue"
  /\ UNCHANGED <<shared, writerVars, readerVars, pollVars, history>>
  /\ UNCHANGED <<wasSpeaking, hadPendingQueue, inFlightSpeech, cancelSer,
                 preserved>>
  /\ UNCHANGED <<cancelCount, settingCount, pollCount, connectCount,
                 failureCount>>
  /\ UNCHANGED extra

\* speak(), the rest: start a background connect when offline, queue a
\* settings sync when one is needed, then queue the utterance as one item.
SpeakEnqueue ==
  /\ cpc = "s_enqueue"
  /\ connectThread' = (connectThread \/ serial = NoSerial)
  /\ LET sync == SyncItems(needsSettingsSync)
         it == WriteItem(nextId + Len(sync),
                         SpeechData(speakArgs[1], speakArgs[2]),
                         speakArgs[2], cancelGeneration, TRUE, FALSE, FALSE)
     IN /\ writeQueue' = writeQueue \o sync \o <<it>>
        /\ nextId' = nextId + Len(sync) + 1
        /\ settingsSyncQueued' = (settingsSyncQueued \/ sync # <<>>)
  /\ cpc' = "idle" /\ speakArgs' = <<0, <<>>>> /\ autoCancel' = FALSE
  /\ UNCHANGED <<cancelGeneration, pendingIndexes, isSpeaking,
                 isWritingSpeech, serial, needsSettingsSync,
                 settingsRevision, deviceReplies>>
  /\ UNCHANGED <<wasSpeaking, hadPendingQueue, inFlightSpeech, cancelSer,
                 preserved>>
  /\ UNCHANGED <<writerVars, readerVars, pollVars, counters>>
  /\ UNCHANGED <<lastWrite, maxWritten, wroteStale, reported, doneCount,
                 sent, pendingGen, sweepIn, sweepOut, cancelFired,
                 hadQueuedSpeech>>
  /\ UNCHANGED extra

\* cancel() called by the host (also pause(True)).
Cancel ==
  /\ cpc = "idle" /\ cancelCount < MaxCancel /\ EventBudget
  /\ cancelCount' = cancelCount + 1
  /\ CancelReadIndex
  /\ UNCHANGED <<shared, writerVars, readerVars, pollVars>>
  /\ UNCHANGED <<speakArgs, autoCancel, inFlightSpeech, cancelSer, preserved>>
  /\ UNCHANGED <<nextId, lastWrite, maxWritten, wroteStale, reported,
                 doneCount, sent, pendingGen>>
  /\ UNCHANGED <<speakCount, settingCount, pollCount, connectCount,
                 failureCount>>
  /\ UNCHANGED extra

\* cancel() called by speak().
CancelFromSpeak ==
  /\ cpc = "c_index"
  /\ CancelReadIndex
  /\ UNCHANGED <<shared, writerVars, readerVars, pollVars, counters>>
  /\ UNCHANGED <<speakArgs, autoCancel, inFlightSpeech, cancelSer, preserved>>
  /\ UNCHANGED <<nextId, lastWrite, maxWritten, wroteStale, reported,
                 doneCount, sent, pendingGen>>
  /\ UNCHANGED extra

\* `inFlightSpeech = self._isWritingSpeech` under the write-state lock, then
\* `self._cancelGeneration += 1` (no lock).  No other thread writes the
\* generation and none reads both it and the flag, so the two accesses are
\* one step.
CancelBump ==
  /\ cpc = "c_bump"
  /\ inFlightSpeech' = isWritingSpeech
  /\ cancelGeneration' = cancelGeneration + 1
  /\ cpc' = "c_clear"
  /\ UNCHANGED <<writeQueue, pendingIndexes, isSpeaking, isWritingSpeech,
                 serial, needsSettingsSync, settingsSyncQueued,
                 settingsRevision, connectThread, deviceReplies>>
  /\ UNCHANGED <<writerVars, readerVars, pollVars, history, counters>>
  /\ UNCHANGED <<speakArgs, autoCancel, wasSpeaking, hadPendingQueue,
                 cancelSer, preserved>>
  /\ UNCHANGED extra

\* `self._clearIndexes()` under the index lock, then
\* `ser = self._getSerial()`: whatever changes the handle in between either
\* clears the index state itself (_disconnect) or leaves it alone.
CancelClear ==
  /\ cpc = "c_clear"
  /\ pendingIndexes' = <<>> /\ pendingGen' = <<>> /\ isSpeaking' = FALSE
  /\ cancelSer' = serial
  /\ cpc' = "c_sweep"
  /\ UNCHANGED <<writeQueue, cancelGeneration, isWritingSpeech, serial,
                 needsSettingsSync, settingsSyncQueued, settingsRevision,
                 connectThread, deviceReplies>>
  /\ UNCHANGED <<writerVars, readerVars, pollVars, counters>>
  /\ UNCHANGED <<speakArgs, autoCancel, wasSpeaking, hadPendingQueue,
                 inFlightSpeech, preserved>>
  /\ UNCHANGED <<nextId, lastWrite, maxWritten, wroteStale, reported,
                 doneCount, sent, sweepIn, sweepOut, cancelFired,
                 hadQueuedSpeech>>
  /\ UNCHANGED extra

\* Where cancel() goes once the mute is dealt with.
AfterMute == IF preserved # <<>> THEN "c_restore" ELSE "c_notify"

\* The sweep: one get_nowait() per step, until it raises queue.Empty.
CancelSweep ==
  /\ cpc = "c_sweep"
  /\ IF writeQueue # <<>>
     THEN LET it == Head(writeQueue) IN
          /\ writeQueue' = Tail(writeQueue)
          /\ sweepIn' = Append(sweepIn, it)
          /\ preserved' = IF ShouldPreserve(it) THEN Append(preserved, it)
                          ELSE preserved
          /\ UNCHANGED cpc
     ELSE /\ cpc' = IF ShouldMute(cancelSer, wasSpeaking, hadPendingQueue,
                                  inFlightSpeech)
                    THEN "c_mute" ELSE AfterMute
          /\ UNCHANGED <<writeQueue, sweepIn, preserved>>
  /\ UNCHANGED <<cancelGeneration, pendingIndexes, isSpeaking,
                 isWritingSpeech, serial, needsSettingsSync,
                 settingsSyncQueued, settingsRevision, connectThread,
                 deviceReplies>>
  /\ UNCHANGED <<writerVars, readerVars, pollVars, counters>>
  /\ UNCHANGED <<speakArgs, autoCancel, wasSpeaking, hadPendingQueue,
                 inFlightSpeech, cancelSer>>
  /\ UNCHANGED <<nextId, lastWrite, maxWritten, wroteStale, reported,
                 doneCount, sent, pendingGen, sweepOut, cancelFired,
                 hadQueuedSpeech>>
  /\ UNCHANGED extra

\* except queue.Empty: the mute item is queued (the connection and
\* something speaking, queued or being written were found above).
CancelMute ==
  /\ cpc = "c_mute"
  /\ LET m == WriteItem(nextId, MUTE_LEN, <<>>, cancelGeneration, FALSE,
                        FALSE, TRUE)
     IN /\ writeQueue' = Append(writeQueue, m)
        /\ sweepOut' = Append(sweepOut, m)
  /\ nextId' = nextId + 1
  /\ cpc' = AfterMute
  /\ UNCHANGED <<cancelGeneration, pendingIndexes, isSpeaking,
                 isWritingSpeech, serial, needsSettingsSync,
                 settingsSyncQueued, settingsRevision, connectThread,
                 deviceReplies>>
  /\ UNCHANGED <<writerVars, readerVars, pollVars, counters>>
  /\ UNCHANGED <<speakArgs, autoCancel, wasSpeaking, hadPendingQueue,
                 inFlightSpeech, cancelSer, preserved>>
  /\ UNCHANGED <<lastWrite, maxWritten, wroteStale, reported, doneCount,
                 sent, pendingGen, sweepIn, cancelFired, hadQueuedSpeech>>
  /\ UNCHANGED extra

\* `for item in preserved: self._writeQueue.put(item)`, one put per step.
CancelRestore ==
  /\ cpc = "c_restore"
  /\ writeQueue' = Append(writeQueue, Head(preserved))
  /\ sweepOut' = Append(sweepOut, Head(preserved))
  /\ preserved' = Tail(preserved)
  /\ cpc' = IF Tail(preserved) # <<>> THEN "c_restore" ELSE "c_notify"
  /\ UNCHANGED <<cancelGeneration, pendingIndexes, isSpeaking,
                 isWritingSpeech, serial, needsSettingsSync,
                 settingsSyncQueued, settingsRevision, connectThread,
                 deviceReplies>>
  /\ UNCHANGED <<writerVars, readerVars, pollVars, counters>>
  /\ UNCHANGED <<speakArgs, autoCancel, wasSpeaking, hadPendingQueue,
                 inFlightSpeech, cancelSer>>
  /\ UNCHANGED <<nextId, lastWrite, maxWritten, wroteStale, reported,
                 doneCount, sent, pendingGen, sweepIn, cancelFired,
                 hadQueuedSpeech>>
  /\ UNCHANGED extra

\* The end of cancel(): 'done speaking' if it is due.
CancelNotify ==
  /\ cpc = "c_notify"
  /\ IF ShouldNotifyCancel(wasSpeaking, hadPendingQueue, inFlightSpeech)
     THEN doneCount' = doneCount + 1 /\ cancelFired' = 1
     ELSE UNCHANGED <<doneCount, cancelFired>>
  /\ cpc' = "c_return"
  /\ UNCHANGED <<shared, writerVars, readerVars, pollVars, counters>>
  /\ UNCHANGED <<speakArgs, autoCancel, wasSpeaking, hadPendingQueue,
                 inFlightSpeech, cancelSer, preserved>>
  /\ UNCHANGED <<nextId, lastWrite, maxWritten, wroteStale, reported, sent,
                 pendingGen, sweepIn, sweepOut, hadQueuedSpeech>>
  /\ UNCHANGED extra

\* cancel() returns, to the host or into speak().
CancelReturn ==
  /\ cpc = "c_return"
  /\ cpc' = IF autoCancel THEN "s_enqueue" ELSE "idle"
  /\ wasSpeaking' = FALSE /\ hadPendingQueue' = FALSE
  /\ inFlightSpeech' = FALSE /\ cancelSer' = NoSerial
  /\ sweepIn' = <<>> /\ sweepOut' = <<>> /\ cancelFired' = 0
  /\ hadQueuedSpeech' = FALSE
  /\ UNCHANGED <<shared, writerVars, readerVars, pollVars, counters>>
  /\ UNCHANGED <<speakArgs, autoCancel, preserved>>
  /\ UNCHANGED <<nextId, lastWrite, maxWritten, wroteStale, reported,
                 doneCount, sent, pendingGen>>
  /\ UNCHANGED extra

\* A single-parameter setter (_set_rate and the like) with a new value:
\* bump the settings revision, then _sendSettingCommand: offline it asks
\* for a full sync, online it queues the non-cancelable command.
SetParameter ==
  /\ cpc = "idle" /\ settingCount < MaxSetting /\ EventBudget
  /\ settingCount' = settingCount + 1
  /\ settingsRevision' = settingsRevision + 1
  /\ IF serial = NoSerial
     THEN LET sync == SyncItems(TRUE) IN
          /\ needsSettingsSync' = TRUE
          /\ writeQueue' = writeQueue \o sync
          /\ nextId' = nextId + Len(sync)
          /\ settingsSyncQueued' = (settingsSyncQueued \/ sync # <<>>)
     ELSE /\ writeQueue' = Append(writeQueue,
               WriteItem(nextId, SETTING_COMMAND_LEN, <<>>, cancelGeneration,
                         FALSE, FALSE, FALSE))
          /\ nextId' = nextId + 1
          /\ UNCHANGED <<needsSettingsSync, settingsSyncQueued>>
  /\ UNCHANGED <<cancelGeneration, pendingIndexes, isSpeaking,
                 isWritingSpeech, serial, connectThread, deviceReplies>>
  /\ UNCHANGED <<writerVars, readerVars, pollVars, callerVars>>
  /\ UNCHANGED <<lastWrite, maxWritten, wroteStale, reported, doneCount,
                 sent, pendingGen, sweepIn, sweepOut, cancelFired,
                 hadQueuedSpeech>>
  /\ UNCHANGED <<speakCount, cancelCount, pollCount, connectCount,
                 failureCount>>
  /\ UNCHANGED extra

\* ---------------------------------------------------------- specification
Next ==
  \/ WGet \/ WMute \/ WSync \/ WSyncDone \/ WNormal \/ WCheck \/ WWrite
  \/ WFlush \/ WFinFlag \/ WFinIndex
  \/ RRead \/ ROnUnitsRemaining \/ RNotify
  \/ PCheck \/ PEnqueue
  \/ BackgroundConnect
  \/ Speak \/ SpeakEnqueue \/ Cancel \/ CancelFromSpeak
  \/ CancelBump \/ CancelClear \/ CancelSweep \/ CancelMute
  \/ CancelRestore \/ CancelNotify \/ CancelReturn \/ SetParameter

Spec == Init /\ [][Next]_vars

\* ------------------------------------------------------------------ claims
\* C1 -- From _clearIndexes() until cancel() returns the pending-index queue
\* is empty and the speaking flag is false, and (outside the window between
\* the generation bump and _clearIndexes()) every pending index comes from
\* an item whose generation is the current one, i.e. from an item enqueued
\* after the last cancel(): no index of an earlier item is ever added.
C1_CancelClearsIndexState ==
  /\ cpc \in {"c_sweep", "c_mute", "c_restore", "c_notify", "c_return"} =>
       pendingIndexes = <<>> /\ ~isSpeaking
  /\ Len(pendingGen) = Len(pendingIndexes)
  /\ cpc # "c_clear" =>
       \A i \in 1..Len(pendingGen) : pendingGen[i] = cancelGeneration

\* cancel() returns while the writer is in the finally clause of a speech
\* item of an older generation, about to decide on its indexes.
C1_Witness ==
  /\ cpc = "c_return" /\ wasSpeaking
  /\ wpc = "fin_index" /\ IsSpeech(item)
  /\ item.generation # cancelGeneration

\* C2 -- cancel() fires exactly one 'done speaking' if, when it was called,
\* the speaking flag was set, indexes were pending, a speech item was being
\* written or a speech item was in the write queue, and none otherwise.
C2_CancelNotifiesIffSpeech ==
  cpc = "c_return" =>
    (cancelFired = 1 <=> (wasSpeaking \/ inFlightSpeech \/ hadQueuedSpeech))

C4_DoneAtMostOncePerUtterance == doneCount <= speakCount

C6_IndexBeforeDone ==
  [][speakCount = 1 /\ Len(reported') > Len(reported) => doneCount = 0]_vars

C10_WireInEnqueueOrder ==
  ~lastWrite.isMute => lastWrite.id >= lastWrite.prevMax

\* C15 -- When the writer takes a cancelable Normal item with no connection
\* published: an item past the staleness window goes neither to the wire nor
\* back to the queue; every item dropped this way fires 'done speaking'
\* exactly when its last index is the end-of-utterance sentinel; an item is
\* put back only while it is within the window, and each requeue ages it, so
\* it is put back at most OfflineMaxRetries + 1 times.
C15_OfflineStep == wpc = "normal" /\ wpc' # "normal" /\ serial = NoSerial
                   /\ item.cancelable

C15_OfflineCancelableItem ==
  [][C15_OfflineStep =>
       /\ item.age > OfflineMaxRetries =>
            /\ wpc' = "get"
            /\ writeQueue' = writeQueue
            /\ lastWrite' = lastWrite
       /\ (wpc' = "get" /\ writeQueue' = writeQueue) =>
            doneCount' = doneCount + (IF HasDoneIndex(item) THEN 1 ELSE 0)
       /\ writeQueue' # writeQueue =>
            /\ item.age <= OfflineMaxRetries
            /\ writeQueue' = Append(writeQueue,
                                    [item EXCEPT !.age = item.age + 1])
            /\ doneCount' = doneCount]_vars

\* An utterance that has outlived the window is about to be dropped.
C15_Witness ==
  /\ wpc = "normal" /\ serial = NoSerial /\ item.cancelable
  /\ item.age > OfflineMaxRetries /\ HasDoneIndex(item)

\* C15 as stated: an offline cancelable item is either dropped or requeued,
\* so the writer never goes on to write it in the same iteration.
C15_DroppedOrRequeued ==
  [][C15_OfflineStep => wpc' = "get"]_vars

\* C16 -- Whenever no connection is published the pending-index queue is
\* empty and the speaking flag is false.
C16_NoSpeechWhileOffline ==
  serial = NoSerial => (pendingIndexes = <<>> /\ ~isSpeaking)

\* ==================================================== connection lifecycle
\* A second specification over the same driver: who publishes, closes and
\* uses the serial handle.  The queue holds only non-cancelable Normal items
\* (setting commands), which survive cancel(); the speech path is the
\* subject of Spec above.
MaxLoad == 2
MaxQueued == 1

\* what LifeSpec leaves alone
mainIdle == <<writeQueue, cancelGeneration, isWritingSpeech,
              settingsSyncQueued, settingsRevision, connectThread,
              deviceReplies, writerVars, readerVars, pollVars, callerVars,
              history, speakCount, cancelCount, settingCount, pollCount,
              failureCount>>
lifeOthers == <<mainIdle, timedVars, speakVars, paramVars,
                indexVars,
                formantVars,
                textVars,
                loopVars,
                prefixVars,
                backoffVars,
                syncVars,
                autoVars,
                lockVars>>

\* what a worker does to the port is recorded once terminate() has returned
Late(act) == IF terminated THEN lateActs \cup {act} ELSE lateActs

\* ---- _disconnect(), run by thread t
\* `with self._serialIoLock: with self._serialLock: ser = self._serial;
\* self._serial = None`, then _requireSettingsSync().  The I/O lock is an
\* RLock: the thread that holds it (a failed writeBytes) passes.
DUnpublish(t) ==
  /\ lpc[t] = "d_unpublish"
  /\ serialIoLock \in {Free, t}
  /\ lser' = [lser EXCEPT ![t] = serial]
  /\ serial' = NoSerial
  /\ needsSettingsSync' = TRUE
  /\ lpc' = [lpc EXCEPT ![t] = "d_close"]
  /\ UNCHANGED <<connectCount, pendingIndexes, isSpeaking, stopEvent,
                 didInitialConnectCheck, connectLock, serialIoLock, lret,
                 busy, busyKind, connected, closed, queued, loadCount,
                 raised, initialResult, terminated, closedUnderIo,
                 wroteClosed, lateActs, lifeOthers>>

\* `if ser is not None: cancel_write(); cancel_read(); ser.close()`, outside
\* both locks, then _clearIndexes().
DClose(t) ==
  /\ lpc[t] = "d_close"
  /\ IF lser[t] # NoSerial
     THEN /\ closed' = closed \cup {lser[t]}
          /\ closedUnderIo' = closedUnderIo \cup
               {busyKind[u] : u \in {v \in Threads \ {t} : busy[v] = lser[t]}}
     ELSE UNCHANGED <<closed, closedUnderIo>>
  /\ pendingIndexes' = <<>>
  /\ isSpeaking' = FALSE
  /\ lpc' = [lpc EXCEPT ![t] = lret[t]]
  /\ UNCHANGED <<serial, connectCount, needsSettingsSync, stopEvent,
                 didInitialConnectCheck, connectLock, serialIoLock, lret,
                 lser, busy, busyKind, connected, queued, loadCount, raised,
                 initialResult, terminated, wroteClosed, lateActs,
                 lifeOthers>>

\* ---- _ensureConnected(), run by thread t
\* A connect thread that does not wait for the lock.
MayEnterConnect_NoLock(lock) == TRUE

\* `with self._connectLock:`
MayEnterConnect(lock) == lock = Free

ELock(t) ==
  /\ lpc[t] = "e_lock"
  /\ MayEnterConnect(connectLock)
  /\ connectLock' = t
  /\ lpc' = [lpc EXCEPT ![t] = "e_check"]
  /\ UNCHANGED <<serial, connectCount, pendingIndexes, isSpeaking,
                 needsSettingsSync, stopEvent, didInitialConnectCheck,
                 serialIoLock, lret, lser, busy, busyKind, connected,
                 closed, queued, loadCount, raised, initialResult,
                 terminated, closedUnderIo, wroteClosed, lateActs,
                 lifeOthers>>

\* `if self._getSerial() is not None: return True`
ECheck(t) ==
  /\ lpc[t] = "e_check"
  /\ IF serial # NoSerial
     THEN /\ connected' = [connected EXCEPT ![t] = TRUE]
          /\ connectLock' = Free
          /\ lpc' = [lpc EXCEPT ![t] = lret[t]]
     ELSE /\ lpc' = [lpc EXCEPT ![t] = "e_open"]
          /\ UNCHANGED <<connected, connectLock>>
  /\ UNCHANGED <<serial, connectCount, pendingIndexes, isSpeaking,
                 needsSettingsSync, stopEvent, didInitialConnectCheck,
                 serialIoLock, lret, lser, busy, busyKind, closed, queued,
                 loadCount, raised, initialResult, terminated,
                 closedUnderIo, wroteClosed, lateActs, lifeOthers>>

\* The candidate loop: openSerial gives a fresh handle, or no candidate is
\* left (open failed, deadline passed, back-off) and the call returns False.
EOpen(t) ==
  /\ lpc[t] = "e_open"
  /\ \/ /\ CanConnect
        /\ lser' = [lser EXCEPT ![t] = NewHandle]
        /\ connectCount' = connectCount + 1
        /\ lateActs' = Late("open")
        /\ lpc' = [lpc EXCEPT ![t] = "e_probe"]
        /\ UNCHANGED <<connected, connectLock>>
     \/ /\ connected' = [connected EXCEPT ![t] = FALSE]
        /\ connectLock' = Free
        /\ lpc' = [lpc EXCEPT ![t] = lret[t]]
        /\ UNCHANGED <<lser, connectCount, lateActs>>
  /\ UNCHANGED <<serial, pendingIndexes, isSpeaking, needsSettingsSync,
                 stopEvent, didInitialConnectCheck, serialIoLock, lret,
                 busy, busyKind, closed, queued, loadCount, raised,
                 initialResult, terminated, closedUnderIo, wroteClosed,
                 lifeOthers>>

\* ensureIndexingAndProbe: mute and query are written under the I/O lock,
\* then the reply is awaited `while ... and not self._stopEvent.is_set()`.
\* Without a reply the candidate is closed and the next one is tried.
EProbe(t) ==
  /\ lpc[t] = "e_probe"
  /\ serialIoLock = Free
  /\ lateActs' = Late("write")
  /\ \/ /\ ~stopEvent
        /\ lpc' = [lpc EXCEPT ![t] = "e_init"]
        /\ UNCHANGED <<closed, lser>>
     \/ /\ closed' = closed \cup {lser[t]}
        /\ lser' = [lser EXCEPT ![t] = NoSerial]
        /\ lpc' = [lpc EXCEPT ![t] = "e_open"]
  /\ UNCHANGED <<serial, connectCount, pendingIndexes, isSpeaking,
                 needsSettingsSync, stopEvent, didInitialConnectCheck,
                 connectLock, serialIoLock, lret, busy, busyKind, connected,
                 queued, loadCount, raised, initialResult, terminated,
                 closedUnderIo, wroteClosed, lifeOthers>>

\* finalizeConnection: `self._initPort(ser)` writes mute and index-enable
\* under the I/O lock.
EInit(t) ==
  /\ lpc[t] = "e_init"
  /\ serialIoLock = Free
  /\ lateActs' = Late("write")
  /\ lpc' = [lpc EXCEPT ![t] = "e_store"]
  /\ UNCHANGED <<serial, connectCount, pendingIndexes, isSpeaking,
                 needsSettingsSync, stopEvent, didInitialConnectCheck,
                 connectLock, serialIoLock, lret, lser, busy, busyKind,
                 connected, closed, queued, loadCount, raised,
                 initialResult, terminated, closedUnderIo, wroteClosed,
                 lifeOthers>>

\* finalizeConnection: `with self._serialLock: self._serial = ser`, return
\* True.
EStore(t) ==
  /\ lpc[t] = "e_store"
  /\ serial' = lser[t]
  /\ lateActs' = Late("store")
  /\ connected' = [connected EXCEPT ![t] = TRUE]
  /\ connectLock' = Free
  /\ lpc' = [lpc EXCEPT ![t] = lret[t]]
  /\ UNCHANGED <<connectCount, pendingIndexes, isSpeaking,
                 needsSettingsSync, stopEvent, didInitialConnectCheck,
                 serialIoLock, lret, lser, busy, busyKind, closed, queued,
                 loadCount, raised, initialResult, terminated,
                 closedUnderIo, wroteClosed, lifeOthers>>

\* ---- write thread
\* `item = self._writeQueue.get()`; None, put by terminate(), ends the loop.
LWGet ==
  /\ lpc["writer"] = "w_get"
  /\ \/ /\ queued > 0
        /\ queued' = queued - 1
        /\ lpc' = [lpc EXCEPT !["writer"] = "w_item"]
     \/ /\ queued = 0 /\ stopEvent
        /\ lpc' = [lpc EXCEPT !["writer"] = "exit"]
        /\ UNCHANGED queued
  /\ UNCHANGED <<serial, connectCount, pendingIndexes, isSpeaking,
                 needsSettingsSync, stopEvent, didInitialConnectCheck,
                 connectLock, serialIoLock, lret, lser, busy, busyKind,
                 connected, closed, loadCount, raised, initialResult,
                 terminated, closedUnderIo, wroteClosed, lateActs,
                 lifeOthers>>

\* `ser = self._getSerial(); if ser is None: ... self._ensureConnected()`
LWItem ==
  /\ lpc["writer"] = "w_item"
  /\ IF serial = NoSerial
     THEN /\ lpc' = [lpc EXCEPT !["writer"] = "e_lock"]
          /\ lret' = [lret EXCEPT !["writer"] = "w_connected"]
          /\ UNCHANGED lser
     ELSE /\ lser' = [lser EXCEPT !["writer"] = serial]
          /\ lpc' = [lpc EXCEPT !["writer"] = "w_lock"]
          /\ UNCHANGED lret
  /\ UNCHANGED <<serial, connectCount, pendingIndexes, isSpeaking,
                 needsSettingsSync, stopEvent, didInitialConnectCheck,
                 connectLock, serialIoLock, busy, busyKind, connected,
                 closed, queued, loadCount, raised, initialResult,
                 terminated, closedUnderIo, wroteClosed, lateActs,
                 lifeOthers>>

\* After _ensureConnected(): without a handle the item is put back after
\* the retry sleep (behind the None of terminate(), if that was put).
LWConnected ==
  /\ lpc["writer"] = "w_connected"
  /\ IF connected["writer"] /\ serial # NoSerial
     THEN /\ lser' = [lser EXCEPT !["writer"] = serial]
          /\ lpc' = [lpc EXCEPT !["writer"] = "w_lock"]
          /\ UNCHANGED queued
     ELSE /\ queued' = IF stopEvent THEN queued ELSE queued + 1
          /\ lser' = [lser EXCEPT !["writer"] = NoSerial]
          /\ lpc' = [lpc EXCEPT !["writer"] = "w_get"]
  /\ UNCHANGED <<serial, connectCount, pendingIndexes, isSpeaking,
                 needsSettingsSync, stopEvent, didInitialConnectCheck,
                 connectLock, serialIoLock, lret, busy, busyKind, connected,
                 closed, loadCount, raised, initialResult, terminated,
                 closedUnderIo, wroteClosed, lateActs, lifeOthers>>

\* writeBytes: `with self._serialIoLock:`
LWLock ==
  /\ lpc["writer"] = "w_lock"
  /\ serialIoLock = Free
  /\ serialIoLock' = "writer"
  /\ lpc' = [lpc EXCEPT !["writer"] = "w_write"]
  /\ UNCHANGED <<serial, connectCount, pendingIndexes, isSpeaking,
                 needsSettingsSync, stopEvent, didInitialConnectCheck,
                 connectLock, lret, lser, busy, busyKind, connected, closed,
                 queued, loadCount, raised, initialResult, terminated,
                 closedUnderIo, wroteClosed, lateActs, lifeOthers>>

\* `ser.write(chunk)` begins, on the handle read before the lock was taken.
LWWrite ==
  /\ lpc["writer"] = "w_write"
  /\ busy' = [busy EXCEPT !["writer"] = lser["writer"]]
  /\ busyKind' = [busyKind EXCEPT !["writer"] = "write"]
  /\ wroteClosed' = (wroteClosed \/ lser["writer"] \in closed)
  /\ lateActs' = Late("write")
  /\ lpc' = [lpc EXCEPT !["writer"] = "w_writing"]
  /\ UNCHANGED <<serial, connectCount, pendingIndexes, isSpeaking,
                 needsSettingsSync, stopEvent, didInitialConnectCheck,
                 connectLock, serialIoLock, lret, lser, connected, closed,
                 queued, loadCount, raised, initialResult, terminated,
                 closedUnderIo, lifeOthers>>

\* `ser.write(chunk)` ends: it returns, or it raises and writeBytes calls
\* _disconnect() with the I/O lock still held.
LWWritten ==
  /\ lpc["writer"] = "w_writing"
  /\ busy' = [busy EXCEPT !["writer"] = NoSerial]
  /\ busyKind' = [busyKind EXCEPT !["writer"] = "none"]
  /\ \/ /\ lser["writer"] \notin closed
        /\ lpc' = [lpc EXCEPT !["writer"] = "w_unlock"]
        /\ UNCHANGED lret
     \/ /\ lpc' = [lpc EXCEPT !["writer"] = "d_unpublish"]
        /\ lret' = [lret EXCEPT !["writer"] = "w_unlock"]
  /\ UNCHANGED <<serial, connectCount, pendingIndexes, isSpeaking,
                 needsSettingsSync, stopEvent, didInitialConnectCheck,
                 connectLock, serialIoLock, lser, connected, closed, queued,
                 loadCount, raised, initialResult, terminated,
                 closedUnderIo, wroteClosed, lateActs, lifeOthers>>

\* the end of the `with self._serialIoLock:` block
LWUnlock ==
  /\ lpc["writer"] = "w_unlock"
  /\ serialIoLock' = Free
  /\ lser' = [lser EXCEPT !["writer"] = NoSerial]
  /\ lpc' = [lpc EXCEPT !["writer"] = "w_get"]
  /\ UNCHANGED <<serial, connectCount, pendingIndexes, isSpeaking,
                 needsSettingsSync, stopEvent, didInitialConnectCheck,
                 connectLock, lret, busy, busyKind, connected, closed,
                 queued, loadCount, raised, initialResult, terminated,
                 closedUnderIo, wroteClosed, lateActs, lifeOthers>>

\* ---- read thread
\* `while not self._stopEvent.is_set(): ser = self._getSerial()` and, with a
\* handle, `ser.read(1)` begins; no lock is taken.
LRLoop ==
  /\ lpc["reader"] = "r_loop"
  /\ \/ /\ stopEvent
        /\ lpc' = [lpc EXCEPT !["reader"] = "exit"]
        /\ UNCHANGED <<lser, busy, busyKind>>
     \/ /\ ~stopEvent /\ serial # NoSerial
        /\ lser' = [lser EXCEPT !["reader"] = serial]
        /\ busy' = [busy EXCEPT !["reader"] = serial]
        /\ busyKind' = [busyKind EXCEPT !["reader"] = "read"]
        /\ lpc' = [lpc EXCEPT !["reader"] = "r_reading"]
  /\ UNCHANGED <<serial, connectCount, pendingIndexes, isSpeaking,
                 needsSettingsSync, stopEvent, didInitialConnectCheck,
                 connectLock, serialIoLock, lret, connected, closed, queued,
                 loadCount, raised, initialResult, terminated,
                 closedUnderIo, wroteClosed, lateActs, lifeOthers>>

\* `ser.read(1)` ends: it returns, or it raises and the loop calls
\* _disconnect().
LRRead ==
  /\ lpc["reader"] = "r_reading"
  /\ busy' = [busy EXCEPT !["reader"] = NoSerial]
  /\ busyKind' = [busyKind EXCEPT !["reader"] = "none"]
  /\ \/ /\ lpc' = [lpc EXCEPT !["reader"] = "r_loop"]
        /\ UNCHANGED lret
     \/ /\ lpc' = [lpc EXCEPT !["reader"] = "d_unpublish"]
        /\ lret' = [lret EXCEPT !["reader"] = "r_loop"]
  /\ UNCHANGED <<serial, connectCount, pendingIndexes, isSpeaking,
                 needsSettingsSync, stopEvent, didInitialConnectCheck,
                 connectLock, serialIoLock, lser, connected, closed, queued,
                 loadCount, raised, initialResult, terminated,
                 closedUnderIo, wroteClosed, lateActs, lifeOthers>>

\* ---- caller
\* _startBackgroundConnect(): nothing if stopped, connected or a connect
\* thread is alive.
MayStartConnect ==
  ~stopEvent /\ serial = NoSerial /\ lpc["connect"] = "dead"

\* A loadSettings() that makes the bounded attempt on every call.
NeedsInitialCheck_Always(did) == TRUE

\* `if not self._didInitialConnectCheck:`
NeedsInitialCheck(did) == ~did

\* loadSettings() up to the bounded attempt
\* `self._ensureConnected(maxDuration=_INITIAL_CONNECT_MAX_SECONDS)`.
LoadSettings ==
  /\ lpc["caller"] = "idle"
  /\ loadCount < MaxLoad
  /\ loadCount' = loadCount + 1
  /\ IF NeedsInitialCheck(didInitialConnectCheck)
     THEN /\ didInitialConnectCheck' = TRUE
          /\ lpc' = [lpc EXCEPT !["caller"] = "e_lock"]
          /\ lret' = [lret EXCEPT !["caller"] = "ls_checked"]
     ELSE /\ lpc' = [lpc EXCEPT !["caller"] = "ls_rest"]
          /\ UNCHANGED <<didInitialConnectCheck, lret>>
  /\ UNCHANGED <<serial, connectCount, pendingIndexes, isSpeaking,
                 needsSettingsSync, stopEvent, connectLock, serialIoLock,
                 lser, busy, busyKind, connected, closed, queued, raised,
                 initialResult, terminated, closedUnderIo, wroteClosed,
                 lateActs, lifeOthers>>

\* `if not self._ensureConnected(...): raise RuntimeError(...)`
LoadSettingsChecked ==
  /\ lpc["caller"] = "ls_checked"
  /\ initialResult' = IF initialResult # "none" THEN initialResult
                      ELSE IF connected["caller"] THEN "ok" ELSE "failed"
  /\ IF connected["caller"]
     THEN /\ lpc' = [lpc EXCEPT !["caller"] = "ls_rest"]
          /\ UNCHANGED raised
     ELSE /\ raised' = TRUE
          /\ lpc' = [lpc EXCEPT !["caller"] = "idle"]
  /\ UNCHANGED <<serial, connectCount, pendingIndexes, isSpeaking,
                 needsSettingsSync, stopEvent, didInitialConnectCheck,
                 connectLock, serialIoLock, lret, lser, busy, busyKind,
                 connected, closed, queued, loadCount, terminated,
                 closedUnderIo, wroteClosed, lateActs, lifeOthers>>

\* the rest of loadSettings(): _requireSettingsSync() and
\* _startBackgroundConnect()
LoadSettingsRest ==
  /\ lpc["caller"] = "ls_rest"
  /\ needsSettingsSync' = TRUE
  /\ IF MayStartConnect
     THEN /\ lpc' = [lpc EXCEPT !["caller"] = "idle", !["connect"] = "e_lock"]
          /\ lret' = [lret EXCEPT !["connect"] = "dead"]
     ELSE /\ lpc' = [lpc EXCEPT !["caller"] = "idle"]
          /\ UNCHANGED lret
  /\ UNCHANGED <<serial, connectCount, pendingIndexes, isSpeaking,
                 stopEvent, didInitialConnectCheck, connectLock,
                 serialIoLock, lser, busy, busyKind, connected, closed,
                 queued, loadCount, raised, initialResult, terminated,
                 closedUnderIo, wroteClosed, lateActs, lifeOthers>>

\* speak() while disconnected: `self._startBackgroundConnect()`
StartBackgroundConnect ==
  /\ lpc["caller"] = "idle"
  /\ MayStartConnect
  /\ lpc' = [lpc EXCEPT !["connect"] = "e_lock"]
  /\ lret' = [lret EXCEPT !["connect"] = "dead"]
  /\ UNCHANGED <<serial, connectCount, pendingIndexes, isSpeaking,
                 needsSettingsSync, stopEvent, didInitialConnectCheck,
                 connectLock, serialIoLock, lser, busy, busyKind, connected,
                 closed, queued, loadCount, raised, initialResult,
                 terminated, closedUnderIo, wroteClosed, lateActs,
                 lifeOthers>>

\* A setter while connected: _sendSettingCommand queues a non-cancelable
\* item (_queueWrite does nothing once the stop flag is set).
QueueSetting ==
  /\ lpc["caller"] = "idle"
  /\ serial # NoSerial /\ ~stopEvent
  /\ queued < MaxQueued
  /\ queued' = queued + 1
  /\ UNCHANGED <<serial, connectCount, pendingIndexes, isSpeaking,
                 needsSettingsSync, stopEvent, didInitialConnectCheck,
                 connectLock, serialIoLock, lpc, lret, lser, busy, busyKind,
                 connected, closed, loadCount, raised, initialResult,
                 terminated, closedUnderIo, wroteClosed, lateActs,
                 lifeOthers>>

\* terminate(): `self.cancel()` clears the index state
Terminate ==
  /\ lpc["caller"] = "idle"
  /\ ~stopEvent
  /\ pendingIndexes' = <<>>
  /\ isSpeaking' = FALSE
  /\ lpc' = [lpc EXCEPT !["caller"] = "t_stop"]
  /\ UNCHANGED <<serial, connectCount, needsSettingsSync, stopEvent,
                 didInitialConnectCheck, connectLock, serialIoLock, lret,
                 lser, busy, busyKind, connected, closed, queued, loadCount,
                 raised, initialResult, terminated, closedUnderIo,
                 wroteClosed, lateActs, lifeOthers>>

\* `self._stopEvent.set(); self._writeQueue.put(None); self._disconnect()`
TerminateStop ==
  /\ lpc["caller"] = "t_stop"
  /\ stopEvent' = TRUE
  /\ lpc' = [lpc EXCEPT !["caller"] = "d_unpublish"]
  /\ lret' = [lret EXCEPT !["caller"] = "t_return"]
  /\ UNCHANGED <<serial, connectCount, pendingIndexes, isSpeaking,
                 needsSettingsSync, didInitialConnectCheck, connectLock,
                 serialIoLock, lser, busy, busyKind, connected, closed,
                 queued, loadCount, raised, initialResult, terminated,
                 closedUnderIo, wroteClosed, lateActs, lifeOthers>>

\* terminate() returns
TerminateReturn ==
  /\ lpc["caller"] = "t_return"
  /\ terminated' = TRUE
  /\ lpc' = [lpc EXCEPT !["caller"] = "done"]
  /\ UNCHANGED <<serial, connectCount, pendingIndexes, isSpeaking,
                 needsSettingsSync, stopEvent, didInitialConnectCheck,
                 connectLock, serialIoLock, lret, lser, busy, busyKind,
                 connected, closed, queued, loadCount, raised,
                 initialResult, closedUnderIo, wroteClosed, lateActs,
                 lifeOthers>>

LifeNext ==
  \/ \E t \in Threads : DUnpublish(t)
  \/ \E t \in Threads : DClose(t)
  \/ \E t \in Threads : ELock(t)
  \/ \E t \in Threads : ECheck(t)
  \/ \E t \in Threads : EOpen(t)
  \/ \E t \in Threads : EProbe(t)
  \/ \E t \in Threads : EInit(t)
  \/ \E t \in Threads : EStore(t)
  \/ LWGet \/ LWItem \/ LWConnected \/ LWLock \/ LWWrite \/ LWWritten
  \/ LWUnlock
  \/ LRLoop \/ LRRead
  \/ LoadSettings \/ LoadSettingsChecked \/ LoadSettingsRest
  \/ StartBackgroundConnect \/ QueueSetting
  \/ Terminate \/ TerminateStop \/ TerminateReturn

LifeSpec == Init /\ [][LifeNext]_vars

\* C11 -- No thread closes a serial handle while another thread has a write
\* in recovered on that handle, and no write begins on a handle that another
\* thread's _disconnect() has closed.
C11_NoCloseRacesWrite == "write" \notin closedUnderIo /\ ~wroteClosed

\* C12 -- The published handle changes in two ways only: _ensureConnected
\* stores a handle of its own, and only when none is published (a live
\* handle is never overwritten), and _disconnect() empties it.
C12_SingleConnection ==
  [][serial' # serial =>
       \/ /\ serial = NoSerial
          /\ \E t \in Threads :
               lpc[t] = "e_store" /\ lpc'[t] = lret[t] /\ serial' = lser[t]
       \/ /\ serial' = NoSerial
          /\ \E t \in Threads : lpc[t] = "d_unpublish" /\ lpc'[t] = "d_close"
    ]_vars

\* A handle is published and a thread inside _ensureConnected, holding the
\* connect lock, is about to test it.
C12_Witness ==
  serial # NoSerial /\ \E t \in Threads : lpc[t] = "e_check"

\* C14 -- loadSettings() raises exactly when its first, bounded connect
\* returns failure, and not when that connect confirms the device; later
\* calls never raise, and a worker loop ends only on the stop flag, never
\* because a connect, a read or a write failed.
C14_RaisesIffInitialConnectFails ==
  /\ raised <=> initialResult = "failed"
  /\ \A t \in {"writer", "reader"} : lpc[t] = "exit" => stopEvent

\* The first loadSettings() has raised and a worker has since met a failed
\* connect of its own.
C14_Witness ==
  raised /\ lpc["writer"] = "w_connected" /\ ~connected["writer"]

\* C17 -- Once terminate() has returned the stop flag is set, the index
\* state is clear, no handle is published, and no worker opens a port,
\* writes to the device or publishes a handle any more.
C17_TerminatedForGood ==
  terminated =>
    /\ stopEvent
    /\ pendingIndexes = <<>> /\ ~isSpeaking
    /\ serial = NoSerial
    /\ lateActs = {}

\* ===================================================== the bounded connect
\* _ensureConnected(maxDuration=...) against a clock.  Time is counted in
\* ticks of 50 ms; a blocking call takes any time up to its timeout.
INITIAL_CONNECT_MAX == 40  \* _INITIAL_CONNECT_MAX_SECONDS = 2.0
minWriteTimeout == 5       \* (_WRITE_CHUNK_SIZE * 10) / 9600 + 0.2 s
readTimeout == 2           \* serial_for_url(..., timeout=0.1)
probeTimeout == 5          \* 0.25 s when a deadline is set
retrySleep == 2            \* time.sleep(min(0.1, remaining))
MaxCandidates == 2         \* ports returned by getCandidatePorts()

timedOthers == <<shared, writerVars, readerVars, pollVars, callerVars,
                 history, counters, lifeVars, speakVars, paramVars,
                 indexVars,
                 formantVars,
                 textVars,
                 loopVars,
                 prefixVars,
                 backoffVars,
                 syncVars,
                 autoVars,
                 lockVars>>

\* where a probe that found nothing continues: tryIndexingProbe writes the
\* enable command and probes again, ensureIndexingAndProbe tries the second
\* command variant, then the candidate is closed.
AfterProbe(pc, n) ==
  IF pc \in {"probe1", "wait1"} THEN <<"enable", n>>
  ELSE IF n = 1 THEN <<"mute", 2>> ELSE <<"loop", n>>

\* `with self._connectLock: overallDeadline = time.monotonic() + maxDuration`
TBegin ==
  /\ tpc = "idle"
  /\ overallDeadline' = now + INITIAL_CONNECT_MAX
  /\ \E n \in 1..MaxCandidates : candLeft' = n
  /\ tpc' = "loop"
  /\ UNCHANGED <<now, probeDeadline, tryNo, sawBusyPortError, connectResult,
                 returnedAt, timedOthers>>

\* The head of the candidate loop: past the deadline or out of candidates
\* the loop ends; otherwise openSerial gives a handle or fails (noting a
\* busy port).
TLoop ==
  /\ tpc = "loop"
  /\ IF now > overallDeadline \/ candLeft = 0
     THEN tpc' = "retry" /\ UNCHANGED <<candLeft, tryNo, sawBusyPortError>>
     ELSE /\ candLeft' = candLeft - 1
          /\ \/ tpc' = "mute" /\ tryNo' = 1 /\ UNCHANGED sawBusyPortError
             \/ /\ tpc' = "loop"
                /\ \E b \in BOOLEAN : sawBusyPortError' = (sawBusyPortError \/ b)
                /\ UNCHANGED tryNo
  /\ UNCHANGED <<now, overallDeadline, probeDeadline, connectResult,
                 returnedAt, timedOthers>>

\* tryIndexingProbe: `writeAndFlush(ser, _MUTE)` and, after a first probe
\* without reply, `writeAndFlush(ser, enable)`; neither looks at the
\* deadline nor at its own result.
TWrite ==
  /\ tpc \in {"mute", "enable"}
  /\ \E d \in 0..minWriteTimeout : now' = now + d
  /\ tpc' = IF tpc = "mute" THEN "probe1" ELSE "probe2"
  /\ UNCHANGED <<overallDeadline, probeDeadline, tryNo, candLeft,
                 sawBusyPortError, connectResult, returnedAt, timedOthers>>

\* probeIndexResponseDirect up to its wait loop: nothing left of the
\* deadline gives False at once; otherwise the query is written and the
\* wait lasts min(timeout, remaining).
TProbe ==
  /\ tpc \in {"probe1", "probe2"}
  /\ LET remaining == overallDeadline - now
         next == AfterProbe(tpc, tryNo) IN
       IF remaining <= 0
       THEN /\ tpc' = next[1] /\ tryNo' = next[2]
            /\ UNCHANGED <<now, probeDeadline>>
       ELSE \E d \in 0..minWriteTimeout :
              /\ now' = now + d
              /\ \/ /\ probeDeadline' = now' + Min(probeTimeout, remaining)
                    /\ tpc' = IF tpc = "probe1" THEN "wait1" ELSE "wait2"
                    /\ UNCHANGED tryNo
                 \/ /\ tpc' = next[1] /\ tryNo' = next[2]
                    /\ UNCHANGED probeDeadline
  /\ UNCHANGED <<overallDeadline, candLeft, sawBusyPortError, connectResult,
                 returnedAt, timedOthers>>

\* The wait loop `while time.monotonic() < deadline`: each ser.read(1)
\* returns within the read timeout with a valid reply, with nothing, or
\* with an error.
TWait ==
  /\ tpc \in {"wait1", "wait2"}
  /\ LET next == AfterProbe(tpc, tryNo) IN
       IF now < probeDeadline
       THEN \E d \in 0..readTimeout :
              /\ now' = now + d
              /\ \/ tpc' = "switch" /\ UNCHANGED tryNo
                 \/ d > 0 /\ UNCHANGED <<tpc, tryNo>>
                 \/ tpc' = next[1] /\ tryNo' = next[2]
       ELSE tpc' = next[1] /\ tryNo' = next[2] /\ UNCHANGED now
  /\ UNCHANGED <<overallDeadline, probeDeadline, candLeft, sawBusyPortError,
                 connectResult, returnedAt, timedOthers>>

\* trySwitchSynthBaudRate: past the deadline the candidate is given up,
\* otherwise (no switch requested) the connection is finalized.
TSwitch ==
  /\ tpc = "switch"
  /\ tpc' = IF now > overallDeadline THEN "loop" ELSE "init1"
  /\ UNCHANGED <<now, overallDeadline, probeDeadline, tryNo, candLeft,
                 sawBusyPortError, connectResult, returnedAt, timedOthers>>

\* finalizeConnection: _initPort writes mute, then index-enable.
TInit ==
  /\ tpc \in {"init1", "init2"}
  /\ \E d \in 0..minWriteTimeout : now' = now + d
  /\ tpc' = IF tpc = "init1" THEN "init2" ELSE "store"
  /\ UNCHANGED <<overallDeadline, probeDeadline, tryNo, candLeft,
                 sawBusyPortError, connectResult, returnedAt, timedOthers>>

\* `self._serial = ser; return True`
TStore ==
  /\ tpc = "store"
  /\ tpc' = "returned"
  /\ connectResult' = TRUE
  /\ returnedAt' = now
  /\ UNCHANGED <<now, overallDeadline, probeDeadline, tryNo, candLeft,
                 sawBusyPortError, timedOthers>>

\* After the candidate loop: with time left and a busy port seen, sleep and
\* scan again; otherwise return False.
TRetry ==
  /\ tpc = "retry"
  /\ LET remaining == overallDeadline - now IN
       IF remaining <= 0 \/ ~sawBusyPortError
       THEN /\ tpc' = "returned"
            /\ connectResult' = FALSE
            /\ returnedAt' = now
            /\ UNCHANGED <<now, candLeft, sawBusyPortError>>
       ELSE /\ now' = now + Min(retrySleep, remaining)
            /\ \E n \in 1..MaxCandidates : candLeft' = n
            /\ sawBusyPortError' = FALSE
            /\ tpc' = "loop"
            /\ UNCHANGED <<connectResult, returnedAt>>
  /\ UNCHANGED <<overallDeadline, probeDeadline, tryNo, timedOthers>>

TimedNext ==
  \/ TBegin \/ TLoop \/ TWrite \/ TProbe \/ TWait \/ TSwitch \/ TInit
  \/ TStore \/ TRetry

TimedSpec == Init /\ [][TimedNext]_vars

\* C13 -- A bounded connect returns no later than its deadline plus one
\* chunk-write timeout.
C13_ReturnsByDeadline ==
  tpc = "returned" => returnedAt <= overallDeadline + minWriteTimeout

\* ======================================================= speak(): payload
\* speak() as the function from a speech sequence and the current settings
\* to the write item it queues.  Bytes are one-character strings.
MaxItems == 3

speakOthers == <<writeQueue, cancelGeneration, pendingIndexes, isSpeaking,
                 isWritingSpeech, serial, settingsRevision, connectThread,
                 deviceReplies, writerVars, readerVars, pollVars, callerVars,
                 history, counters, didInitialConnectCheck, connectLock,
                 serialIoLock, lpc, lret, lser, busy, busyKind, connected,
                 closed, queued, loadCount, raised, initialResult,
                 terminated, closedUnderIo, wroteClosed, lateActs,
                 timedVars, paramVars,
                 indexVars,
                 formantVars,
                 textVars,
                 loopVars,
                 prefixVars,
                 backoffVars,
                 syncVars,
                 autoVars,
                 lockVars>>

\* protocol.py and __init__-time settings, as bytes
INDEX_MARK_COMMAND == <<"@", "I", "+", " ">>
CR == <<"\r">>
RateCommand == <<"@", "W", "5", " ">>
PitchBytes(h) == <<"@", "F", h, " ">>
TxCommand == <<"@", "T", "x">>
Announcement == <<"L", " ">>
HexDigits == {"0", "8", "F"}

\* ---- text.py
\* A sanitize_text that lets every character through.
sanitize_text_Raw(text) == text

\* Characters are named by strings; ord() of the ones that occur.
Ord(ch) ==
  CASE ch = "NUL" -> 0 [] ch = "TAB" -> 9 [] ch = "LF" -> 10
    [] ch = "ESC" -> 27 [] ch = " " -> 32 [] ch = "+" -> 43
    [] ch = "1" -> 49 [] ch = "@" -> 64 [] ch = "I" -> 73 [] ch = "a" -> 97
    [] ch = "DEL" -> 127 [] ch = "NEL" -> 133 [] ch = "CSI" -> 155
    [] ch = "NBSP" -> 160 [] ch = "a-ogonek" -> 261

\* str.isspace() of one character
isspace(ch) == ch \in {"TAB", "LF", " ", "NEL", "NBSP"}

\* A test for control characters that finds none.
IsControl_None(ch) == FALSE

\* `ord(ch) < 0x20`
IsControl(ch) == Ord(ch) < 32

\* sanitize_text: empty stays empty; '@' becomes a space, then every
\* whitespace character, control character and DEL becomes a space.
sanitize_text(text) ==
  IF text = <<>> THEN <<>>
  ELSE LET replaced == [i \in 1..Len(text) |->
                          IF text[i] = "@" THEN " " ELSE text[i]]
       IN [i \in 1..Len(text) |->
             IF isspace(replaced[i]) \/ IsControl(replaced[i])
                \/ Ord(replaced[i]) = 127
             THEN " " ELSE replaced[i]]

HasDigit(text) == \E i \in 1..Len(text) : text[i] = "1"

\* encode_text: with expand_numbers the digits are replaced by words (here
\* the one-letter word "j"); then cp1250 with the Polish letters translated
\* to their Apollo codes.
encode_text(text, expand_numbers) ==
  [i \in 1..Len(text) |->
     IF expand_numbers /\ HasDigit(text) /\ text[i] = "1" THEN "j"
     ELSE IF text[i] = "a-ogonek" THEN "x86" ELSE text[i]]

\* str.isalnum() of one character
IsAlnum(ch) == ch \in {"a", "1", "I", "a-ogonek"}

\* ---- the speech sequence
SpeechItem(type, text, index, state, time) ==
  [type |-> type, text |-> text, index |-> index, state |-> state,
   time |-> time]
Texts == {<<>>, <<"a">>, <<"1">>, <<"@", "I">>, <<"+", " ">>,
          <<"TAB", "a-ogonek">>}
BreakTimes == {0, 250}
CallerIndexes == {1, 2}
SpeechItems ==
  {SpeechItem("text", t, 0, FALSE, 0) : t \in Texts}
  \cup {SpeechItem("index", <<>>, i, FALSE, 0) : i \in CallerIndexes}
  \cup {SpeechItem("charMode", <<>>, 0, b, 0) : b \in BOOLEAN}
  \cup {SpeechItem("pitch", <<>>, 0, FALSE, 0),
        SpeechItem("end", <<>>, 0, FALSE, 0)}
  \cup {SpeechItem("break", <<>>, 0, FALSE, ms) : ms \in BreakTimes}
SpeechSequences == UNION {[1..n -> SpeechItems] : n \in 0..MaxItems}

\* the item handed to _queueWrite
QueuedItem(data, ixs, cancelable, isSettingsSync) ==
  [data |-> data, indexes |-> ixs, cancelable |-> cancelable,
   isSettingsSync |-> isSettingsSync]

\* ---- flushText()
\* expand_numbers=self._expandNumbers and not (synthSpellMode or
\* charModeActive)
Expanding(charMode) == expandNumbers /\ ~(spellMode \/ charMode)

FlushedOutput(out, buf, pend, charMode) ==
  IF buf = <<>> THEN out
  ELSE out \o pend \o encode_text(buf, Expanding(charMode))

FlushedPitch(buf, pend) == IF buf = <<>> THEN pend ELSE <<>>

\* round(time / 100), rounding half to even, at least 1
Repeats(time) ==
  LET q == time \div 100
      r == time % 100
      n == IF r < 50 THEN q
           ELSE IF r > 50 THEN q + 1
           ELSE IF q % 2 = 0 THEN q ELSE q + 1
  IN Max(1, n)

RECURSIVE Repeat(_, _)
Repeat(bytes, n) == IF n = 0 THEN <<>> ELSE bytes \o Repeat(bytes, n - 1)

\* A text handler that leaves character mode on.
CharModeAfterText_Sticky(active) == active

\* `charModeActive = False` after the text that follows the toggle
CharModeAfterText(active) == FALSE

\* ---- speak(), from the settings sync to the loop over the items
SpeakCall ==
  /\ upc = "idle"
  /\ \E seq \in SpeechSequences : speechSequence' = seq
  /\ \E b \in BOOLEAN : spellMode' = b
  /\ \E b \in BOOLEAN : expandNumbers' = b
  /\ \E announce \in BOOLEAN :
       textBufferParts' = IF announce THEN Announcement ELSE <<>>
  /\ IF needsSettingsSync /\ ~stopEvent /\ ~settingsSyncQueued
     THEN /\ settingsSyncQueued' = TRUE
          /\ enqueued' = <<QueuedItem(<<>>, <<>>, FALSE, TRUE)>>
     ELSE /\ enqueued' = <<>>
          /\ UNCHANGED settingsSyncQueued
  /\ outputParts' = RateCommand \o PitchBytes("8")
  /\ bufferItems' = {} /\ flushedItems' = {} /\ unexpanded' = {}
  /\ charModeActive' = FALSE
  /\ needSpaceBeforeNextText' = FALSE
  /\ pendingPitchBytes' = <<>>
  /\ indexList' = <<>>
  /\ pos' = 1
  /\ upc' = "items"
  /\ UNCHANGED <<needsSettingsSync, stopEvent, speakOthers>>

\* one turn of `for item in speechSequence:`
SpeakItem ==
  /\ upc = "items" /\ pos <= Len(speechSequence)
  /\ pos' = pos + 1
  /\ LET it == speechSequence[pos]
         flushedOut == FlushedOutput(outputParts, textBufferParts,
                                     pendingPitchBytes, charModeActive)
         flushedPitch == FlushedPitch(textBufferParts, pendingPitchBytes)
         noteFlush ==
           /\ flushedItems' = flushedItems \cup bufferItems
           /\ unexpanded' = unexpanded \cup
                (IF Expanding(charModeActive) THEN {} ELSE bufferItems)
           /\ bufferItems' = {}
     IN
     CASE it.type = "text" ->
            LET san == sanitize_text(it.text)
                pre == IF needSpaceBeforeNextText /\ san # <<>>
                          /\ ~spellMode /\ IsAlnum(san[1])
                       THEN <<" ">> ELSE <<>>
                buf == textBufferParts \o pre \o san
                here == IF san = <<>> THEN {} ELSE {pos}
            IN IF charModeActive
               THEN /\ outputParts' = FlushedOutput(outputParts, buf,
                                        pendingPitchBytes, TRUE)
                    /\ pendingPitchBytes' =
                         FlushedPitch(buf, pendingPitchBytes)
                    /\ textBufferParts' = <<>>
                    /\ flushedItems' = flushedItems \cup bufferItems \cup here
                    /\ unexpanded' = unexpanded \cup bufferItems \cup here
                    /\ bufferItems' = {}
                    /\ charModeActive' = CharModeAfterText(charModeActive)
                    /\ needSpaceBeforeNextText' = TRUE
                    /\ UNCHANGED indexList
               ELSE /\ textBufferParts' = buf
                    /\ bufferItems' = bufferItems \cup here
                    /\ needSpaceBeforeNextText' =
                         (needSpaceBeforeNextText /\ san = <<>>)
                    /\ UNCHANGED <<outputParts, pendingPitchBytes,
                                   flushedItems, unexpanded, charModeActive,
                                   indexList>>
       [] it.type = "index" ->
            /\ outputParts' = flushedOut \o INDEX_MARK_COMMAND
            /\ indexList' = Append(indexList, it.index)
            /\ pendingPitchBytes' = flushedPitch
            /\ textBufferParts' = <<>>
            /\ noteFlush
            /\ UNCHANGED <<charModeActive, needSpaceBeforeNextText>>
       [] it.type = "charMode" ->
            /\ outputParts' = flushedOut
            /\ pendingPitchBytes' = flushedPitch
            /\ textBufferParts' = <<>>
            /\ noteFlush
            /\ charModeActive' = it.state
            /\ UNCHANGED <<indexList, needSpaceBeforeNextText>>
       [] it.type = "pitch" ->
            /\ outputParts' = flushedOut
            /\ \E h \in HexDigits : pendingPitchBytes' = PitchBytes(h)
            /\ textBufferParts' = <<>>
            /\ noteFlush
            /\ UNCHANGED <<indexList, charModeActive, needSpaceBeforeNextText>>
       [] it.type = "end" ->
            /\ outputParts' = flushedOut
            /\ pendingPitchBytes' = <<>>
            /\ textBufferParts' = <<>>
            /\ noteFlush
            /\ charModeActive' = FALSE
            /\ UNCHANGED <<indexList, needSpaceBeforeNextText>>
       [] it.type = "break" ->
            /\ outputParts' =
                 flushedOut \o
                 (IF it.time > 0
                  THEN Repeat(TxCommand \o
                                (IF spellMode \/ charModeActive THEN <<>>
                                 ELSE <<" ">>),
                              Repeats(it.time))
                  ELSE <<>>)
            /\ pendingPitchBytes' = flushedPitch
            /\ textBufferParts' = <<>>
            /\ noteFlush
            /\ UNCHANGED <<indexList, charModeActive, needSpaceBeforeNextText>>
  /\ UNCHANGED <<needsSettingsSync, settingsSyncQueued, stopEvent, upc,
                 speechSequence, spellMode, expandNumbers, enqueued,
                 speakOthers>>

\* After the loop: the last flush, the final index mark with the sentinel,
\* the carriage return, and _queueWrite (which does nothing once the stop
\* flag is set).
SpeakFinish ==
  /\ upc = "items" /\ pos > Len(speechSequence)
  /\ LET ixs == Append(indexList, INTERNAL_DONE_INDEX)
         out == FlushedOutput(outputParts, textBufferParts,
                              pendingPitchBytes, FALSE)
                  \o INDEX_MARK_COMMAND
     IN /\ outputParts' = out
        /\ indexList' = ixs
        /\ enqueued' = IF stopEvent THEN enqueued
                       ELSE Append(enqueued,
                                   QueuedItem(out \o CR, ixs, TRUE, FALSE))
  /\ pendingPitchBytes' = FlushedPitch(textBufferParts, pendingPitchBytes)
  /\ textBufferParts' = <<>>
  /\ flushedItems' = flushedItems \cup bufferItems
  /\ unexpanded' = unexpanded \cup
       (IF Expanding(FALSE) THEN {} ELSE bufferItems)
  /\ bufferItems' = {}
  /\ charModeActive' = FALSE
  /\ needSpaceBeforeNextText' =
       (needSpaceBeforeNextText /\ ~charModeActive)
  /\ upc' = "queued"
  /\ UNCHANGED <<needsSettingsSync, settingsSyncQueued, stopEvent,
                 speechSequence, pos, spellMode, expandNumbers,
                 speakOthers>>

\* speak() returns and its locals are gone
SpeakReturn ==
  /\ upc = "queued"
  /\ upc' = "idle"
  /\ speechSequence' = <<>> /\ pos' = 1
  /\ outputParts' = <<>> /\ textBufferParts' = <<>>
  /\ charModeActive' = FALSE /\ needSpaceBeforeNextText' = FALSE
  /\ pendingPitchBytes' = <<>> /\ indexList' = <<>> /\ enqueued' = <<>>
  /\ bufferItems' = {} /\ flushedItems' = {} /\ unexpanded' = {}
  /\ UNCHANGED <<needsSettingsSync, settingsSyncQueued, stopEvent,
                 spellMode, expandNumbers, speakOthers>>

\* terminate(): `self._stopEvent.set()`
SpeakStop ==
  /\ upc = "idle" /\ ~stopEvent
  /\ stopEvent' = TRUE
  /\ UNCHANGED <<needsSettingsSync, settingsSyncQueued, upc, speechSequence,
                 pos, spellMode, expandNumbers, outputParts,
                 textBufferParts, charModeActive, needSpaceBeforeNextText,
                 pendingPitchBytes, indexList, enqueued, bufferItems,
                 flushedItems, unexpanded, speakOthers>>

SpeakNext ==
  SpeakCall \/ SpeakItem \/ SpeakFinish \/ SpeakReturn \/ SpeakStop

SpeakSpec == Init /\ [][SpeakNext]_vars

\* the index-mark commands a payload holds
MarkCount(data) ==
  Cardinality({p \in 1..(Len(data) - 3) :
                 SubSeq(data, p, p + 3) = INDEX_MARK_COMMAND})

EndsWith(data, tail) ==
  /\ Len(data) >= Len(tail)
  /\ SubSeq(data, Len(data) - Len(tail) + 1, Len(data)) = tail

IsIndexItem(it) == it.type = "index"

\* the indexes of the caller's index items, in order
CallerIndexList(seq) ==
  LET marks == SelectSeq(seq, IsIndexItem)
  IN [i \in 1..Len(marks) |-> marks[i].index]

IsCancelable(q) == q.cancelable

\* C18 -- A speak() call made while the stop flag is unset queues exactly
\* one cancelable item: its payload ends with the index-mark command and a
\* carriage return, its index list is the caller's indexes in order followed
\* by the end-of-utterance sentinel, and its payload holds exactly one
\* index-mark command per entry of that list.  With the stop flag set the
\* call queues nothing.
C18_OneItemMarksMatchIndexes ==
  upc = "queued" =>
    IF stopEvent THEN enqueued = <<>>
    ELSE LET speech == SelectSeq(enqueued, IsCancelable) IN
         /\ Len(speech) = 1
         /\ EndsWith(speech[1].data, INDEX_MARK_COMMAND \o CR)
         /\ speech[1].indexes =
              Append(CallerIndexList(speechSequence), INTERNAL_DONE_INDEX)
         /\ MarkCount(speech[1].data) = Len(speech[1].indexes)

\* An utterance with two caller indexes and text that held an '@' has been
\* queued.
C18_Witness ==
  /\ upc = "queued" /\ ~stopEvent
  /\ Len(indexList) = 3
  /\ \E i \in 1..Len(speechSequence) :
       speechSequence[i].text = <<"@", "I">>

\* C18 as stated: every speak() call queues exactly one cancelable item.
C18_AlwaysOneItem ==
  upc = "queued" => Len(SelectSeq(enqueued, IsCancelable)) = 1

\* a spell-mode command ("@S0", "@S1") somewhere in the bytes
ContainsSpell(data) ==
  \E p \in 1..(Len(data) - 1) : data[p] = "@" /\ data[p + 1] = "S"

\* Item k is the first text item after a character-mode-on item, with no
\* character-mode or end-of-utterance item between the two.
CharModeAt(seq, k) ==
  \E j \in 1..(k - 1) :
    /\ seq[j].type = "charMode" /\ seq[j].state
    /\ \A m \in (j + 1)..(k - 1) :
         seq[m].type \notin {"text", "charMode", "end"}

MaxRevision == 2

MIN_RATE == 1
MAX_RATE == 9
MIN_PITCH == 0
MAX_PITCH == 15
MIN_VOLUME == 0
MAX_VOLUME == 15
MIN_INFLECTION == 0
MAX_INFLECTION == 7
MIN_VOICING == 1
MAX_VOICING == 8
MIN_SENTENCE_PAUSE == 0
MAX_SENTENCE_PAUSE == 15
MIN_WORD_PAUSE == 0
MAX_WORD_PAUSE == 9
MIN_MARK_SPACE_RATIO == 0
MAX_MARK_SPACE_RATIO == 63
FORMANT_DELTA_HARD_MIN == -255
FORMANT_DELTA_HARD_MAX == 255

paramOthers == <<cancelGeneration, isWritingSpeech, connectThread,
                 deviceReplies, writerVars, readerVars, pollVars, callerVars,
                 lastWrite, maxWritten, wroteStale, reported, doneCount,
                 sent, pendingGen, sweepIn, sweepOut, cancelFired,
                 hadQueuedSpeech, counters, stopEvent,
                 didInitialConnectCheck, connectLock, serialIoLock, lpc,
                 lret, lser, busy, busyKind, connected, queued, loadCount,
                 raised, initialResult, terminated, closedUnderIo,
                 wroteClosed, lateActs, timedVars, speakVars,
                 indexVars,
                 formantVars,
                 textVars,
                 loopVars,
                 backoffVars,
                 syncVars,
                 autoVars,
                 lockVars>>

\* ---- the values a caller can pass: None, a bool, an int, a str
PyNone == [kind |-> "none"]
PyBool(b) == [kind |-> "bool", b |-> b]
PyInt(n) == [kind |-> "int", n |-> n]
PyStr(s) == [kind |-> "str", s |-> s]

\* int(value) of _setFormantDelta: None raises TypeError, a str is parsed
\* in base 10
ToInt(value) ==
  IF value.kind = "int" THEN {value.n}
  ELSE IF value.kind = "bool" THEN {IF value.b THEN 1 ELSE 0}
  ELSE IF value.kind = "str" THEN ParseInt(value.s, 10)
  ELSE {}

\* `value or ""` of the slot setters
OrEmpty(value) == IF value.kind = "str" THEN value.s ELSE <<>>

\* ---- _percentToParam, inherited from the host's SynthDriver:
\* round(percent / 100 * (max - min) + min), halves rounded to even and the
\* result not clamped.
PercentToParam(percent, min, max) ==
  LET num == percent * (max - min)
      q == num \div 100
      r == num % 100
      v == q + min
  IN IF r < 50 THEN v
     ELSE IF r > 50 THEN v + 1
     ELSE IF v % 2 = 0 THEN v ELSE v + 1

\* ---- _coerceChoiceValueToParam
coerceChoiceValueToParam(value, paramMin, paramMax, default) ==
  IF value.kind \in {"none", "bool"} THEN default
  ELSE IF value.kind = "int"
  THEN PercentToParam(Max(0, Min(100, value.n)), paramMin, paramMax)
  ELSE
    LET text == Strip(value.s)
        first == IF StartsWith0x(text) THEN ParseInt(text, 16)
                 ELSE ParseInt(text, 10)
        parsed == IF first = {} /\ Len(text) = 1 THEN ParseInt(text, 16)
                  ELSE first
        n == CHOOSE x \in parsed : TRUE
    IN IF text = <<>> THEN default
       ELSE IF parsed = {} THEN default
       ELSE IF paramMin <= n /\ n <= paramMax THEN n
       ELSE IF 0 <= n /\ n <= 100 THEN PercentToParam(n, paramMin, paramMax)
       ELSE Max(paramMin, Min(paramMax, n))

\* ---- what the host, a configuration file or a script passes
PercentInputs == {-10, 0, 50, 100, 150}
IntTexts == {<<>>, <<" ">>, <<"7">>, <<"a">>, <<"z">>, <<"4", "0">>,
             <<"2", "0", "0">>, <<"-", "5">>, <<"0", "x", "4", "0">>,
             <<" ", "3", " ">>}
ChoiceInputs == {PyNone, PyBool(TRUE), PyInt(-10), PyInt(50), PyInt(150)}
                \cup {PyStr(t) : t \in IntTexts}
VoiceInputs == {<<"1">>, <<"3">>, <<"6">>, <<"7">>, <<"x">>, <<>>}
SlotInputs == {PyNone} \cup
              {PyStr(t) : t \in {<<>>, <<"0">>, <<"1">>, <<"4">>, <<"7">>,
                                 <<"8">>, <<" ", "1", " ">>, <<"x">>}}
DeltaInputs == {PyNone, PyInt(-300), PyInt(-255), PyInt(50), PyInt(300),
                PyStr(<<"7">>), PyStr(<<"-", "5">>), PyStr(<<"x">>)}

\* ---- the calls every setter ends with
\* _queueSettingsSync() right after _requireSettingsSync(): one placeholder
\* item unless the driver is stopping or one is queued already.
queueSettingsSync ==
  LET sync == IF stopEvent THEN <<>> ELSE SyncItems(TRUE) IN
  /\ needsSettingsSync' = TRUE
  /\ writeQueue' = writeQueue \o sync
  /\ nextId' = nextId + Len(sync)
  /\ settingsSyncQueued' = (settingsSyncQueued \/ sync # <<>>)

\* _sendSettingCommand(): offline a full sync is asked for, online the
\* command is queued as a non-cancelable item.
sendSettingCommand ==
  IF serial = NoSerial
  THEN queueSettingsSync
  ELSE /\ writeQueue' = Append(writeQueue,
            WriteItem(nextId, SETTING_COMMAND_LEN, <<>>, cancelGeneration,
                      FALSE, FALSE, FALSE))
       /\ nextId' = nextId + 1
       /\ UNCHANGED <<needsSettingsSync, settingsSyncQueued>>

\* `if any(self._formantDeltas):` force the soft reset to be applied again,
\* with settingsRevision already bumped.
anyFormantDelta == \E i \in DOMAIN formantDeltas : formantDeltas[i] # 0

forceSoftReset ==
  /\ needsSoftReset' = TRUE
  /\ formantDeltasApplied' = [i \in DOMAIN formantDeltasApplied |-> 0]
  /\ softResetRequestedRevision' = settingsRevision + 1

reapplyFormants ==
  IF anyFormantDelta THEN forceSoftReset
  ELSE UNCHANGED <<needsSoftReset, formantDeltasApplied,
                   softResetRequestedRevision>>

\* a setter that finds the value unchanged returns at once
unchangedQueue == UNCHANGED <<settingsRevision, writeQueue, nextId,
                              needsSettingsSync, settingsSyncQueued>>

\* _set_rate: the percentage mapped to the device's scale, then @W.
set_rate ==
  \E value \in PercentInputs :
    LET new == PercentToParam(value, MIN_RATE, MAX_RATE) IN
    /\ settingsRevision < MaxRevision
    /\ IF new = rate
       THEN UNCHANGED rate /\ unchangedQueue
       ELSE /\ rate' = new
            /\ settingsRevision' = settingsRevision + 1
            /\ sendSettingCommand
    /\ UNCHANGED <<voice, pitch, volume, inflection, voicing, sentencePause,
                   wordPause, markSpaceRatio, speakerTable, voiceFilter, rom,
                   formantDeltas, formantDeltasApplied, needsSoftReset,
                   softResetRequestedRevision, needsRomSwitch, serial,
                   pendingIndexes, isSpeaking, closed, prefixVars, paramOthers>>

\* _set_pitch: the percentage mapped to the device's scale, then @F.
set_pitch ==
  \E value \in PercentInputs :
    LET new == PercentToParam(value, MIN_PITCH, MAX_PITCH) IN
    /\ settingsRevision < MaxRevision
    /\ IF new = pitch
       THEN UNCHANGED pitch /\ unchangedQueue
       ELSE /\ pitch' = new
            /\ settingsRevision' = settingsRevision + 1
            /\ sendSettingCommand
    /\ UNCHANGED <<voice, rate, volume, inflection, voicing, sentencePause,
                   wordPause, markSpaceRatio, speakerTable, voiceFilter, rom,
                   formantDeltas, formantDeltasApplied, needsSoftReset,
                   softResetRequestedRevision, needsRomSwitch, serial,
                   pendingIndexes, isSpeaking, closed, prefixVars, paramOthers>>

\* _set_volume: the percentage mapped to the device's scale, then @A.
set_volume ==
  \E value \in PercentInputs :
    LET new == PercentToParam(value, MIN_VOLUME, MAX_VOLUME) IN
    /\ settingsRevision < MaxRevision
    /\ IF new = volume
       THEN UNCHANGED volume /\ unchangedQueue
       ELSE /\ volume' = new
            /\ settingsRevision' = settingsRevision + 1
            /\ sendSettingCommand
    /\ UNCHANGED <<voice, rate, pitch, inflection, voicing, sentencePause,
                   wordPause, markSpaceRatio, speakerTable, voiceFilter, rom,
                   formantDeltas, formantDeltasApplied, needsSoftReset,
                   softResetRequestedRevision, needsRomSwitch, serial,
                   pendingIndexes, isSpeaking, closed, prefixVars, paramOthers>>

\* _set_inflection: the percentage mapped to the device's scale, then @R.
set_inflection ==
  \E value \in PercentInputs :
    LET new == PercentToParam(value, MIN_INFLECTION, MAX_INFLECTION) IN
    /\ settingsRevision < MaxRevision
    /\ IF new = inflection
       THEN UNCHANGED inflection /\ unchangedQueue
       ELSE /\ inflection' = new
            /\ settingsRevision' = settingsRevision + 1
            /\ sendSettingCommand
    /\ UNCHANGED <<voice, rate, pitch, volume, voicing, sentencePause,
                   wordPause, markSpaceRatio, speakerTable, voiceFilter, rom,
                   formantDeltas, formantDeltasApplied, needsSoftReset,
                   softResetRequestedRevision, needsRomSwitch, serial,
                   pendingIndexes, isSpeaking, closed, prefixVars, paramOthers>>

\* _set_markSpaceRatio: the value coerced, the stored one standing in for a value
\* that cannot be read, then @M.
set_markSpaceRatio ==
  \E value \in ChoiceInputs :
    LET new == coerceChoiceValueToParam(value, MIN_MARK_SPACE_RATIO, MAX_MARK_SPACE_RATIO, markSpaceRatio) IN
    /\ settingsRevision < MaxRevision
    /\ IF new = markSpaceRatio
       THEN UNCHANGED markSpaceRatio /\ unchangedQueue
       ELSE /\ markSpaceRatio' = new
            /\ settingsRevision' = settingsRevision + 1
            /\ sendSettingCommand
    /\ UNCHANGED <<voice, rate, pitch, volume, inflection, voicing,
                   sentencePause, wordPause, speakerTable, voiceFilter, rom,
                   formantDeltas, formantDeltasApplied, needsSoftReset,
                   softResetRequestedRevision, needsRomSwitch, serial,
                   pendingIndexes, isSpeaking, closed, prefixVars, paramOthers>>

\* _set_sentencePause: the value coerced, the stored one standing in for a value
\* that cannot be read, then @D.
set_sentencePause ==
  \E value \in ChoiceInputs :
    LET new == coerceChoiceValueToParam(value, MIN_SENTENCE_PAUSE, MAX_SENTENCE_PAUSE, sentencePause) IN
    /\ settingsRevision < MaxRevision
    /\ IF new = sentencePause
       THEN UNCHANGED sentencePause /\ unchangedQueue
       ELSE /\ sentencePause' = new
            /\ settingsRevision' = settingsRevision + 1
            /\ sendSettingCommand
    /\ UNCHANGED <<voice, rate, pitch, volume, inflection, voicing,
                   wordPause, markSpaceRatio, speakerTable, voiceFilter, rom,
                   formantDeltas, formantDeltasApplied, needsSoftReset,
                   softResetRequestedRevision, needsRomSwitch, serial,
                   pendingIndexes, isSpeaking, closed, prefixVars, paramOthers>>

\* _set_wordPause: the value coerced, the stored one standing in for a value
\* that cannot be read, then @Q.
set_wordPause ==
  \E value \in ChoiceInputs :
    LET new == coerceChoiceValueToParam(value, MIN_WORD_PAUSE, MAX_WORD_PAUSE, wordPause) IN
    /\ settingsRevision < MaxRevision
    /\ IF new = wordPause
       THEN UNCHANGED wordPause /\ unchangedQueue
       ELSE /\ wordPause' = new
            /\ settingsRevision' = settingsRevision + 1
            /\ sendSettingCommand
    /\ UNCHANGED <<voice, rate, pitch, volume, inflection, voicing,
                   sentencePause, markSpaceRatio, speakerTable, voiceFilter,
                   rom, formantDeltas, formantDeltasApplied, needsSoftReset,
                   softResetRequestedRevision, needsRomSwitch, serial,
                   pendingIndexes, isSpeaking, closed, prefixVars, paramOthers>>

\* _set_voicing: the value coerced, the stored one standing in for a value
\* that cannot be read, then @B.
set_voicing ==
  \E value \in ChoiceInputs :
    LET new == coerceChoiceValueToParam(value, MIN_VOICING, MAX_VOICING, voicing) IN
    /\ settingsRevision < MaxRevision
    /\ IF new = voicing
       THEN UNCHANGED voicing /\ unchangedQueue
       ELSE /\ voicing' = new
            /\ settingsRevision' = settingsRevision + 1
            /\ sendSettingCommand
    /\ UNCHANGED <<voice, rate, pitch, volume, inflection, sentencePause,
                   wordPause, markSpaceRatio, speakerTable, voiceFilter, rom,
                   formantDeltas, formantDeltasApplied, needsSoftReset,
                   softResetRequestedRevision, needsRomSwitch, serial,
                   pendingIndexes, isSpeaking, closed, prefixVars, paramOthers>>

\* _set_voice: the value is stored as given.
set_voice ==
  \E value \in VoiceInputs :
    /\ settingsRevision < MaxRevision
    /\ IF value = voice
       THEN /\ UNCHANGED <<voice, needsSoftReset, formantDeltasApplied,
                           softResetRequestedRevision>>
            /\ unchangedQueue
       ELSE /\ voice' = value
            /\ settingsRevision' = settingsRevision + 1
            /\ reapplyFormants
            /\ queueSettingsSync
    /\ UNCHANGED <<rate, pitch, volume, inflection, voicing, sentencePause,
                   wordPause, markSpaceRatio, speakerTable, voiceFilter, rom,
                   formantDeltas, needsRomSwitch, serial, pendingIndexes,
                   isSpeaking, closed, prefixVars, paramOthers>>

\* _set_speakerTable: a value outside the list becomes "0".
set_speakerTable ==
  \E value \in SlotInputs :
    LET text == Strip(OrEmpty(value))
        new == IF text \in {<<"0">>, <<"1">>}
               THEN text ELSE <<"0">>
    IN
    /\ settingsRevision < MaxRevision
    /\ IF new = speakerTable
       THEN /\ UNCHANGED <<speakerTable, needsSoftReset, formantDeltasApplied,
                           softResetRequestedRevision>>
            /\ unchangedQueue
       ELSE /\ speakerTable' = new
            /\ settingsRevision' = settingsRevision + 1
            /\ reapplyFormants
            /\ queueSettingsSync
    /\ UNCHANGED <<voice, rate, pitch, volume, inflection, voicing,
                   sentencePause, wordPause, markSpaceRatio, voiceFilter,
                   rom, formantDeltas, needsRomSwitch, serial,
                   pendingIndexes, isSpeaking, closed, prefixVars, paramOthers>>

\* _set_voiceFilter: a value outside the list becomes "0".
set_voiceFilter ==
  \E value \in SlotInputs :
    LET text == Strip(OrEmpty(value))
        new == IF text \in {<<"0">>, <<"1">>, <<"2">>, <<"3">>, <<"4">>, <<"5">>,
                        <<"6">>, <<"7">>}
               THEN text ELSE <<"0">>
    IN
    /\ settingsRevision < MaxRevision
    /\ voiceFilterSelected' = TRUE
    /\ IF new = voiceFilter
       THEN /\ UNCHANGED <<voiceFilter, needsSoftReset, formantDeltasApplied,
                           softResetRequestedRevision>>
            /\ unchangedQueue
       ELSE /\ voiceFilter' = new
            /\ settingsRevision' = settingsRevision + 1
            /\ reapplyFormants
            /\ queueSettingsSync
    /\ UNCHANGED <<voice, rate, pitch, volume, inflection, voicing,
                   sentencePause, wordPause, markSpaceRatio, speakerTable,
                   rom, formantDeltas, needsRomSwitch, serial,
                   pendingIndexes, isSpeaking, closed, sentFilter, paramOthers>>

\* _set_rom: a value outside "1".."4" becomes "1"; a new slot asks for the
\* ROM switch and a full sync, then _disconnect() drops the connection.
set_rom ==
  \E value \in SlotInputs :
    LET text == Strip(OrEmpty(value))
        new == IF text \in {<<"1">>, <<"2">>, <<"3">>, <<"4">>}
               THEN text ELSE <<"1">>
    IN
    /\ settingsRevision < MaxRevision
    /\ IF new = rom
       THEN /\ UNCHANGED <<rom, needsRomSwitch, needsSoftReset,
                           formantDeltasApplied, serial, pendingIndexes,
                           isSpeaking, closed>>
            /\ unchangedQueue
       ELSE /\ rom' = new
            /\ needsRomSwitch' = TRUE
            /\ settingsRevision' = settingsRevision + 1
            /\ queueSettingsSync
            /\ serial' = NoSerial
            /\ needsSoftReset' = TRUE
            /\ formantDeltasApplied' =
                 [i \in DOMAIN formantDeltasApplied |-> 0]
            /\ closed' = IF serial # NoSerial THEN closed \cup {serial}
                         ELSE closed
            /\ pendingIndexes' = <<>>
            /\ isSpeaking' = FALSE
    /\ UNCHANGED <<voice, rate, pitch, volume, inflection, voicing,
                   sentencePause, wordPause, markSpaceRatio, speakerTable,
                   voiceFilter, formantDeltas, softResetRequestedRevision,
                   prefixVars, paramOthers>>

\* `max(_FORMANT_DELTA_HARD_MIN, min(_FORMANT_DELTA_HARD_MAX, delta))`
ClampDelta(delta) ==
  Max(FORMANT_DELTA_HARD_MIN, Min(FORMANT_DELTA_HARD_MAX, delta))

\* _setFormantDelta, called by the ten _set_formant...Delta setters with
\* their own index: what cannot be read as a number counts as 0.
setFormantDelta ==
  \E index \in 0..(FormantCount - 1), value \in DeltaInputs :
    LET parsed == ToInt(value)
        delta == ClampDelta(IF parsed = {} THEN 0
                            ELSE CHOOSE x \in parsed : TRUE)
    IN
    /\ settingsRevision < MaxRevision
    /\ IF index < 0 \/ index >= FormantCount \/ delta = formantDeltas[index]
       THEN /\ UNCHANGED <<formantDeltas, needsSoftReset,
                           formantDeltasApplied, softResetRequestedRevision>>
            /\ unchangedQueue
       ELSE /\ formantDeltas' = [formantDeltas EXCEPT ![index] = delta]
            /\ settingsRevision' = settingsRevision + 1
            /\ forceSoftReset
            /\ queueSettingsSync
    /\ UNCHANGED <<voice, rate, pitch, volume, inflection, voicing,
                   sentencePause, wordPause, markSpaceRatio, speakerTable,
                   voiceFilter, rom, needsRomSwitch, serial, pendingIndexes,
                   isSpeaking, closed, prefixVars, paramOthers>>

\* _set_resetFormantTuning(True): every delta back to 0 and a soft reset,
\* whatever the deltas were.
set_resetFormantTuning ==
  /\ settingsRevision < MaxRevision
  /\ formantDeltas' = [i \in DOMAIN formantDeltas |-> 0]
  /\ settingsRevision' = settingsRevision + 1
  /\ forceSoftReset
  /\ queueSettingsSync
    /\ UNCHANGED <<voice, rate, pitch, volume, inflection, voicing,
                   sentencePause, wordPause, markSpaceRatio, speakerTable,
                   voiceFilter, rom, needsRomSwitch, serial, pendingIndexes,
                   isSpeaking, closed, prefixVars, paramOthers>>


\* ---------------------------------------------------------------- C20
InRange(v, lo, hi) == lo <= v /\ v <= hi

\* C20: after any sequence of setter calls with arbitrary input values,
\* every stored voice parameter lies in its device-native range: rate 1..9,
\* pitch 0..15, volume 0..15, inflection 0..7, voicing 1..8, sentence pause
\* 0..15, word pause 0..9, mark-space ratio 0..63, speaker table 0..1,
\* voice filter 0..7, ROM slot 1..4, voice 1..6 and each formant delta
\* -255..255.
C20_ParametersInRange ==
  /\ InRange(rate, MIN_RATE, MAX_RATE)
  /\ InRange(pitch, MIN_PITCH, MAX_PITCH)
  /\ InRange(volume, MIN_VOLUME, MAX_VOLUME)
  /\ InRange(inflection, MIN_INFLECTION, MAX_INFLECTION)
  /\ InRange(voicing, MIN_VOICING, MAX_VOICING)
  /\ InRange(sentencePause, MIN_SENTENCE_PAUSE, MAX_SENTENCE_PAUSE)
  /\ InRange(wordPause, MIN_WORD_PAUSE, MAX_WORD_PAUSE)
  /\ InRange(markSpaceRatio, MIN_MARK_SPACE_RATIO, MAX_MARK_SPACE_RATIO)
  /\ speakerTable \in {<<"0">>, <<"1">>}
  /\ voiceFilter \in {<<"0">>, <<"1">>, <<"2">>, <<"3">>, <<"4">>, <<"5">>,
                      <<"6">>, <<"7">>}
  /\ rom \in {<<"1">>, <<"2">>, <<"3">>, <<"4">>}
  /\ voice \in {<<"1">>, <<"2">>, <<"3">>, <<"4">>, <<"5">>, <<"6">>}
  /\ \A i \in DOMAIN formantDeltas :
       InRange(formantDeltas[i], FORMANT_DELTA_HARD_MIN,
               FORMANT_DELTA_HARD_MAX)

\* =====================================================================
\* indexing.py: the two decoders applied to the bytes of an index
\* response (IndexSpec).
\* =====================================================================
MaxBytes == 3
MaxPendingCount == 255

indexOthers == <<shared, writerVars, readerVars, pollVars, callerVars,
                 history, counters, lifeVars, timedVars, speakVars,
                 paramVars,
                 formantVars,
                 textVars,
                 loopVars,
                 prefixVars,
                 backoffVars,
                 syncVars,
                 autoVars,
                 lockVars>>

\* the hex digits in both cases, and bytes that are none
HexBytes == {HexChars[i] : i \in 1..Len(HexChars)}
            \cup {"A", "B", "C", "D", "E", "F"}
OtherBytes == {" ", "\t", "+", "-", "_", "x", "g", "x80"}
Bytes == HexBytes \cup OtherBytes
ByteStrings == UNION {[1..n -> Bytes] : n \in 0..MaxBytes}

\* decode_swapped_hex_byte(two_ascii_hex_digits)
CallDecodeSwapped ==
  /\ ixFunc = "none"
  /\ \E b \in ByteStrings :
    /\ ixFunc' = "decode_swapped_hex_byte"
    /\ ixBytes' = b
    /\ ixPending' = 0
    /\ ixResult' = decode_swapped_hex_byte(b)
    /\ UNCHANGED indexOthers

\* decode_index_counter(two_ascii_hex_digits, pending_count)
CallDecodeCounter ==
  /\ ixFunc = "none"
  /\ \E b \in [1..2 -> Bytes] \cup {<<>>, <<"4">>, <<"0", "4", "0">>},
        n \in 0..MaxPendingCount :
    /\ ixFunc' = "decode_index_counter"
    /\ ixBytes' = b
    /\ ixPending' = n
    /\ ixResult' = decode_index_counter(b, n)
    /\ UNCHANGED indexOthers

\* the caller has taken the result
DecodeReturn ==
  /\ ixFunc # "none"
  /\ ixFunc' = "none" /\ ixBytes' = <<>> /\ ixPending' = 0 /\ ixResult' = {}
  /\ UNCHANGED indexOthers

IndexNext == CallDecodeSwapped \/ CallDecodeCounter \/ DecodeReturn

IndexSpec == Init /\ [][IndexNext]_vars

\* ---------------------------------------------------------------- C21
\* the value of a hex digit
HexValue(c) == CHOOSE d \in DigitValue(c, 16) : TRUE

TwoHexDigits(b) == Len(b) = 2 /\ b[1] \in HexBytes /\ b[2] \in HexBytes

\* C21: for every pair of hex digits and every pendingCount >= 0,
\* decode_index_counter returns, of the normal and the swapped-nibble
\* value, the one within 0..pendingCount when exactly one is, the larger
\* when both are, and the smaller when neither is.
C21_DecodeIndexCounter ==
  (ixFunc = "decode_index_counter" /\ TwoHexDigits(ixBytes)) =>
    LET normal == 16 * HexValue(ixBytes[1]) + HexValue(ixBytes[2])
        swapped == 16 * HexValue(ixBytes[2]) + HexValue(ixBytes[1])
        normalIn == normal <= ixPending
        swappedIn == swapped <= ixPending
    IN ixResult =
         {IF normalIn /\ ~swappedIn THEN normal
          ELSE IF swappedIn /\ ~normalIn THEN swapped
          ELSE IF normalIn /\ swappedIn THEN Max(normal, swapped)
          ELSE Min(normal, swapped)}

\* b"12" with 40 pending: both 0x12 and 0x21 fit, the larger is returned
C21_Witness ==
  /\ ixFunc = "decode_index_counter"
  /\ ixBytes = <<"1", "2">> /\ ixPending = 40
  /\ ixResult = {33}

\* ---------------------------------------------------------------- C22
\* C22: decode_swapped_hex_byte raises for every input that is not exactly
\* two ASCII hex digits, and for two hex digits d0 d1 returns
\* 16 * value(d1) + value(d0).
C22_SwappedRequiresTwoHexDigits ==
  ixFunc = "decode_swapped_hex_byte" =>
    ixResult = IF TwoHexDigits(ixBytes)
               THEN {16 * HexValue(ixBytes[2]) + HexValue(ixBytes[1])}
               ELSE {}

\* =====================================================================
\* formants.py: the commands that take the formant deltas from the
\* applied to the desired values (FormantSpec).
\* =====================================================================
MaxDeltas == 2
MAX_CHUNK == 255

formantOthers == <<shared, writerVars, readerVars, pollVars, callerVars,
                   history, counters, lifeVars, timedVars, speakVars,
                   paramVars, indexVars,
                   textVars,
                   loopVars,
                   prefixVars,
                   backoffVars,
                   syncVars,
                   autoVars,
                   lockVars>>

UpperHexChars == <<"0", "1", "2", "3", "4", "5", "6", "7", "8", "9",
                   "A", "B", "C", "D", "E", "F">>

\* the digits of n in a base, most significant first
RECURSIVE FormatDigits(_, _)
FormatDigits(n, base) ==
  IF n < base THEN <<UpperHexChars[n + 1]>>
  ELSE Append(FormatDigits(n \div base, base), UpperHexChars[(n % base) + 1])

\* `{chunk:02X}`: upper-case hex, padded with a zero to two digits
Hex02(chunk) ==
  IF chunk < 16 THEN <<"0">> \o FormatDigits(chunk, 16)
  ELSE FormatDigits(chunk, 16)

\* `f"@u{index}{chunk:02X}{sign} "`
AdjustCommand(index, chunk, sign) ==
  <<"@", "u">> \o FormatDigits(index, 10) \o Hex02(chunk) \o <<sign, " ">>

\* A chunk that takes all that remains.
Chunk_Whole(remaining) == remaining

\* `chunk = min(0xFF, remaining)`
Chunk(remaining) == Min(MAX_CHUNK, remaining)

\* the `while remaining > 0:` loop of get_formant_adjust_commands
RECURSIVE AdjustLoop(_, _, _)
AdjustLoop(index, sign, remaining) ==
  IF remaining > 0
  THEN <<AdjustCommand(index, Chunk(remaining), sign)>>
       \o AdjustLoop(index, sign, remaining - Chunk(remaining))
  ELSE <<>>

get_formant_adjust_commands(index, diff) ==
  IF diff = 0 THEN <<>>
  ELSE AdjustLoop(index, IF diff > 0 THEN "+" ELSE "-",
                  IF diff > 0 THEN diff ELSE 0 - diff)

\* get_formant_diff_commands, from the position `index` on (0-based):
\* `applied[index]` raises past the end of applied and counts as 0.
RECURSIVE DiffLoop(_, _, _)
DiffLoop(desired, applied, index) ==
  IF index >= Len(desired) THEN <<>>
  ELSE LET current == IF index < Len(applied) THEN applied[index + 1] ELSE 0
           diff == desired[index + 1] - current
       IN (IF diff # 0 THEN get_formant_adjust_commands(index, diff)
           ELSE <<>>)
          \o DiffLoop(desired, applied, index + 1)

get_formant_diff_commands(desired, applied) == DiffLoop(desired, applied, 0)

DeltaValues == {-300, -255, -1, 0, 1, 10, 255, 300}
DeltaLists == UNION {[1..n -> DeltaValues] : n \in 0..MaxDeltas}

CallDiffCommands ==
  /\ ~fCalled
  /\ \E desired \in DeltaLists, applied \in DeltaLists :
       /\ fDesired' = desired
       /\ fApplied' = applied
       /\ fCommands' = get_formant_diff_commands(desired, applied)
  /\ fCalled' = TRUE
  /\ UNCHANGED formantOthers

\* the caller has taken the list
DiffReturn ==
  /\ fCalled
  /\ fCalled' = FALSE
  /\ fDesired' = <<>> /\ fApplied' = <<>> /\ fCommands' = <<>>
  /\ UNCHANGED formantOthers

FormantNext == CallDiffCommands \/ DiffReturn

FormantSpec == Init /\ [][FormantNext]_vars

\* ---------------------------------------------------------------- C23
\* what a command says: its index digit, its sign and its magnitude
CommandIndex(c) == c[3]
CommandSign(c) == c[Len(c) - 1]
CommandMagnitude(c) == CHOOSE v \in ParseInt(SubSeq(c, 4, Len(c) - 2), 16) : TRUE

RECURSIVE SumMagnitudes(_)
SumMagnitudes(cs) ==
  IF cs = <<>> THEN 0 ELSE CommandMagnitude(Head(cs)) + SumMagnitudes(Tail(cs))

CommandsFor(i) ==
  LET Mine(c) == CommandIndex(c) = UpperHexChars[i + 1]
  IN SelectSeq(fCommands, Mine)

DiffAt(i) ==
  fDesired[i + 1] - (IF i < Len(fApplied) THEN fApplied[i + 1] ELSE 0)

\* C23: for all desired and applied lists, get_formant_diff_commands emits
\* for each index i (missing applied entries counted as zero) commands that
\* all carry the sign of desired[i] - applied[i], each with a magnitude in
\* 1..255, whose magnitudes sum to |desired[i] - applied[i]|, and nothing
\* for an index whose difference is zero.
C23_DiffCommandsAddUp ==
  fCalled =>
    \A i \in 0..(Len(fDesired) - 1) :
      LET cs == CommandsFor(i)
          diff == DiffAt(i)
      IN /\ \A k \in 1..Len(cs) :
              /\ CommandSign(cs[k]) = (IF diff > 0 THEN "+" ELSE "-")
              /\ CommandMagnitude(cs[k]) \in 1..255
         /\ SumMagnitudes(cs) = (IF diff > 0 THEN diff ELSE 0 - diff)
         /\ (diff = 0 => cs = <<>>)

\* desired [300, 0] against the shorter applied [-300]: three commands for
\* index 0, none for index 1
C23_Witness ==
  /\ fCalled
  /\ fDesired = <<300, 0>> /\ fApplied = <<-300>>
  /\ Len(fCommands) = 3

\* =====================================================================
\* text.py: sanitize_text applied to a text of the host (TextSpec).
\* =====================================================================
MaxTextLen == 3

textOthers == <<shared, writerVars, readerVars, pollVars, callerVars,
                history, counters, lifeVars, timedVars, speakVars,
                paramVars, indexVars, formantVars,
                loopVars,
                prefixVars,
                backoffVars,
                syncVars,
                autoVars,
                lockVars>>

\* the command prefix, whitespace in and beyond ASCII, control characters
\* below and above DEL, DEL, and characters of no special kind
Chars == {"@", " ", "TAB", "LF", "NEL", "NBSP", "NUL", "ESC", "DEL", "CSI",
          "a", "1", "I", "+", "a-ogonek"}
HostTexts == UNION {[1..n -> Chars] : n \in 0..MaxTextLen}

CallSanitize ==
  /\ ~sCalled
  /\ \E text \in HostTexts :
       /\ sText' = text
       /\ sOut' = sanitize_text(text)
  /\ sCalled' = TRUE
  /\ UNCHANGED textOthers

\* the caller has taken the text
SanitizeReturn ==
  /\ sCalled
  /\ sCalled' = FALSE /\ sText' = <<>> /\ sOut' = <<>>
  /\ UNCHANGED textOthers

TextNext == CallSanitize \/ SanitizeReturn

TextSpec == Init /\ [][TextNext]_vars

\* ---------------------------------------------------------------- C24
\* the characters the claim names: the command prefix, whitespace, the
\* control characters below the space, and DEL
Reserved == {"@"}
WhitespaceChars == {" ", "TAB", "LF", "NEL", "NBSP"}
C0Controls == {"NUL", "TAB", "LF", "ESC"}
Normalized == Reserved \cup WhitespaceChars \cup C0Controls \cup {"DEL"}

\* C24: sanitize_text replaces '@' and every whitespace, control (below
\* the space) or DEL character by exactly one ASCII space each and leaves
\* every other character unchanged: the output has the input's length,
\* contains no '@' and no control character, and sanitizing it again
\* changes nothing.
C24_SanitizeText ==
  sCalled =>
    /\ Len(sOut) = Len(sText)
    /\ \A i \in 1..Len(sText) :
         sOut[i] = IF sText[i] \in Normalized THEN " " ELSE sText[i]
    /\ \A i \in 1..Len(sOut) :
         sOut[i] \notin Reserved \cup C0Controls \cup {"DEL"}
    /\ sanitize_text(sOut) = sOut

\* a text of a control character, the command prefix and a letter
C24_Witness ==
  /\ sCalled
  /\ sText = <<"ESC", "@", "a">>
  /\ sOut = <<" ", " ", "a">>

\* ================================================================ LoopSpec
\* The write, read and poll loops with the exceptions of the serial port made
\* explicit.  A call on the port either returns or raises; what follows a
\* raise is what the `except` clause around the call does.  A worker whose
\* exception nothing catches is "dead".  The calls swallowed with a bare
\* `pass` (flush, reset_output_buffer, cancel_read, cancel_write) leave no
\* trace and are left out; so are the formant and ROM state _disconnect
\* resets.  Time is counted in ticks.

\* Port failures injected in one behaviour.
MaxLoopFailures == 2
\* Items the host and the poll loop may add to a queue of this length.
MaxLoopQueue == 2
\* Ticks of the clock.
MaxLoopTime == 1
\* Calls of each host method.
MaxLoopCalls == 1
\* `seconds = (byteCount * 10) / baud + 0.05`: always positive.
SuspendTicks == 1

loopOthers == <<isWritingSpeech, settingsRevision, connectThread,
                deviceReplies, writerVars, readerVars, pollVars, callerVars,
                history, pollCount, connectCount, didInitialConnectCheck,
                connectLock, serialIoLock, lpc, lret, lser, busy, busyKind,
                connected, closed, queued, loadCount, raised, initialResult,
                terminated, closedUnderIo, wroteClosed, lateActs,
                overallDeadline, probeDeadline, tpc, tryNo, candLeft,
                sawBusyPortError, connectResult, returnedAt, speakVars,
                paramVars, indexVars, formantVars, textVars,
                prefixVars,
                backoffVars,
                syncVars,
                autoVars,
                lockVars>>
loopConn == <<serial, needsSettingsSync, pendingIndexes, isSpeaking>>
loopQueue == <<writeQueue, cancelGeneration, settingsSyncQueued>>
loopHost == <<speakCount, cancelCount, settingCount, stopEvent>>
loopGhost == <<failureCount, failed, recovered>>
loopRead == <<readFailure, readDisconnected>>

Workers == {"write", "read", "poll"}
\* The serial calls that may raise.
Sites == {"open", "write", "read_first", "read_rest", "read_table", "close"}

\* Variant of Caught in which no exception of the port is caught.
Caught_None(site) == FALSE

\* The `except Exception:` clause around each serial call: the open in
\* openSerial, the writes in writeBytes and the mute branch, the reads in
\* _readLoop and _handleLanguageListResponse, the close in _disconnect and
\* closeSerial.
Caught(site) == site \in Sites

\* What the `except` clause of a read does next: only the clause of the
\* first-byte read calls _disconnect(); the clause of the three-byte read
\* is `continue`, the clause of the table reads logs and returns.
DisconnectsOnReadFailure(site) == site = "read_first"

\* `self._writeQueue.put(None)`
StopItem == [NoItem EXCEPT !.id = -1]

\* The items of this specification carry no id.
LoopSpeechItem == WriteItem(0, 1, <<1>>, cancelGeneration, TRUE, FALSE, FALSE)
LoopQueryItem ==
  WriteItem(0, INDEX_QUERY_LEN, <<>>, cancelGeneration, TRUE, FALSE, FALSE)
LoopMuteItem ==
  WriteItem(0, MUTE_LEN, <<>>, cancelGeneration, FALSE, FALSE, TRUE)
LoopSyncItem == WriteItem(0, 0, <<>>, cancelGeneration, FALSE, TRUE, FALSE)
LoopCommandItem ==
  WriteItem(0, SETTING_COMMAND_LEN, <<>>, cancelGeneration, FALSE, FALSE,
            FALSE)

Goto(w, pc) == loopPc' = [loopPc EXCEPT ![w] = pc]

\* Where a worker is after the calls at `sites` raised: at `pc` if every
\* exception was caught.
Outcome(w, sites, pc) ==
  Goto(w, IF \A s \in sites : Caught(s) THEN pc ELSE "dead")

CanFail(sites) == failureCount + Cardinality(sites) <= MaxLoopFailures

\* Calls of worker w at `sites` raise.
Fail(w, sites) ==
  /\ failureCount' = failureCount + Cardinality(sites)
  /\ failed' = IF sites = {} THEN failed ELSE failed \cup ({w} \cap Workers)
  /\ recovered' = IF sites = {} THEN recovered ELSE recovered \ {w}

\* Worker w handled an item or a byte.
Progress(w) ==
  /\ recovered' = recovered \cup ({w} \cap failed)
  /\ UNCHANGED <<failureCount, failed>>

\* `ser.close()` of _disconnect and closeSerial may raise as well.
CloseOutcomes(open) == IF open THEN {{}, {"close"}} ELSE {{}}

\* _disconnect(), if the handler gets to call it.
DisconnectIf(called) ==
  IF called
  THEN /\ serial' = NoSerial
       /\ needsSettingsSync' = TRUE
       /\ pendingIndexes' = <<>>
       /\ isSpeaking' = FALSE
  ELSE UNCHANGED loopConn

\* _suspendPollingAfterWrite
SuspendPolling ==
  pollSuspendUntil' = Max(pollSuspendUntil, now + SuspendTicks)

\* ---------------------------------------------------------------- writer
\* `item = self._writeQueue.get()`, the None test and the staleness test.
WriteLoopGet ==
  /\ loopPc["write"] = "get" /\ writeQueue # <<>>
  /\ writeQueue' = Tail(writeQueue)
  /\ LET it == Head(writeQueue) IN
       IF it = StopItem
       THEN Goto("write", "stopped") /\ UNCHANGED loopItem
       ELSE IF DequeueStale(it, cancelGeneration)
       THEN UNCHANGED <<loopPc, loopItem>>
       ELSE /\ loopItem' = it
            /\ Goto("write", IF it.isMute THEN "mute"
                             ELSE IF it.isSettingsSync THEN "sync"
                             ELSE "normal")
  /\ UNCHANGED <<cancelGeneration, settingsSyncQueued, loopConn, loopHost,
                 loopGhost, loopRead, now, pollSuspendUntil, loopOthers>>

\* `if item.isMute:`
WriteLoopMute ==
  /\ loopPc["write"] = "mute"
  /\ loopItem' = NoItem
  /\ \/ /\ serial = NoSerial
        /\ Goto("write", "get")
        /\ UNCHANGED <<loopConn, loopGhost, pollSuspendUntil>>
     \/ /\ serial # NoSerial
        /\ SuspendPolling
        /\ Progress("write")
        /\ Goto("write", "get")
        /\ UNCHANGED loopConn
     \/ /\ serial # NoSerial
        /\ \E c \in CloseOutcomes(TRUE) :
             /\ CanFail({"write"} \cup c)
             /\ Fail("write", {"write"} \cup c)
             /\ Outcome("write", {"write"} \cup c, "get")
        /\ DisconnectIf(Caught("write"))
        /\ UNCHANGED pollSuspendUntil
  /\ UNCHANGED <<loopQueue, loopHost, loopRead, now, loopOthers>>

\* _ensureConnected() called by worker w, which goes on at `back` or at
\* `done`: the open raises; or the port opens and the probe fails, so that
\* closeSerial closes it again; or the device answers and the handle is
\* published.
LoopConnect(w, back, done) ==
  \/ /\ CanFail({"open"})
     /\ Fail(w, {"open"})
     /\ Outcome(w, {"open"}, back)
     /\ UNCHANGED serial
  \/ /\ \E c \in CloseOutcomes(TRUE) :
          /\ CanFail(c)
          /\ Fail(w, c)
          /\ Outcome(w, c, back)
     /\ UNCHANGED serial
  \/ /\ serial' = 1
     /\ Goto(w, done)
     /\ UNCHANGED loopGhost

\* `if item.isSettingsSync:` -- one turn of the coalescing loop.
WriteLoopSync ==
  /\ loopPc["write"] = "sync"
  /\ \/ /\ ~needsSettingsSync \/ stopEvent
        /\ settingsSyncQueued' = needsSettingsSync
        /\ loopItem' = NoItem
        /\ Goto("write", "get")
        /\ UNCHANGED <<loopConn, loopGhost, pollSuspendUntil>>
     \/ /\ needsSettingsSync /\ ~stopEvent /\ serial = NoSerial
        /\ LoopConnect("write", "sync", "sync")
        /\ UNCHANGED <<needsSettingsSync, pendingIndexes, isSpeaking,
                       settingsSyncQueued, loopItem, pollSuspendUntil>>
     \/ /\ needsSettingsSync /\ ~stopEvent /\ serial # NoSerial
        /\ needsSettingsSync' = FALSE
        /\ SuspendPolling
        /\ Progress("write")
        /\ UNCHANGED <<serial, pendingIndexes, isSpeaking, settingsSyncQueued,
                       loopItem, loopPc>>
     \/ /\ needsSettingsSync /\ ~stopEvent /\ serial # NoSerial
        /\ \E c \in CloseOutcomes(TRUE) :
             /\ CanFail({"write"} \cup c)
             /\ Fail("write", {"write"} \cup c)
             /\ Outcome("write", {"write"} \cup c, "sync")
        /\ DisconnectIf(Caught("write"))
        /\ UNCHANGED <<settingsSyncQueued, loopItem, pollSuspendUntil>>
  /\ UNCHANGED <<writeQueue, cancelGeneration, loopHost, loopRead, now,
                 loopOthers>>

\* `if item.indexes: ... self._pendingIndexes.extend(item.indexes)` of the
\* finally clause.
LoopExtend(it) ==
  IF it.indexes # <<>> /\ MayExtend(it, cancelGeneration)
  THEN /\ pendingIndexes' = pendingIndexes \o it.indexes
       /\ isSpeaking' = TRUE
  ELSE UNCHANGED <<pendingIndexes, isSpeaking>>

\* The rest of the loop body: without a port an old item is dropped or the
\* loop connects, putting the item back if that fails; with a port it
\* writes the item (one chunk) and runs the finally clause.
WriteLoopNormal ==
  /\ loopPc["write"] = "normal"
  /\ \/ /\ serial = NoSerial /\ loopItem.cancelable
        /\ loopItem' = NoItem
        /\ Goto("write", "get")
        /\ UNCHANGED <<writeQueue, loopConn, loopGhost, pollSuspendUntil>>
     \/ /\ serial = NoSerial
        /\ LoopConnect("write", "get", "normal")
        /\ IF serial' = NoSerial
           THEN /\ writeQueue' = Append(writeQueue, loopItem)
                /\ loopItem' = NoItem
           ELSE UNCHANGED <<writeQueue, loopItem>>
        /\ UNCHANGED <<needsSettingsSync, pendingIndexes, isSpeaking,
                       pollSuspendUntil>>
     \/ /\ serial # NoSerial /\ ChunkStale(loopItem, cancelGeneration)
        /\ LoopExtend(loopItem)
        /\ loopItem' = NoItem
        /\ Goto("write", "get")
        /\ UNCHANGED <<writeQueue, serial, needsSettingsSync, loopGhost,
                       pollSuspendUntil>>
     \/ /\ serial # NoSerial /\ ~ChunkStale(loopItem, cancelGeneration)
        /\ SuspendPolling
        /\ LoopExtend(loopItem)
        /\ Progress("write")
        /\ loopItem' = NoItem
        /\ Goto("write", "get")
        /\ UNCHANGED <<writeQueue, serial, needsSettingsSync>>
     \/ /\ serial # NoSerial /\ ~ChunkStale(loopItem, cancelGeneration)
        /\ \E c \in CloseOutcomes(TRUE) :
             /\ CanFail({"write"} \cup c)
             /\ Fail("write", {"write"} \cup c)
             /\ Outcome("write", {"write"} \cup c, "get")
        /\ serial' = IF Caught("write") THEN NoSerial ELSE serial
        /\ needsSettingsSync' = (Caught("write") \/ needsSettingsSync)
        /\ IF loopItem.indexes # <<>> /\ MayExtend(loopItem, cancelGeneration)
           THEN /\ pendingIndexes' =
                     (IF Caught("write") THEN <<>> ELSE pendingIndexes)
                       \o loopItem.indexes
                /\ isSpeaking' = TRUE
           ELSE /\ pendingIndexes' =
                     IF Caught("write") THEN <<>> ELSE pendingIndexes
                /\ isSpeaking' = (~Caught("write") /\ isSpeaking)
        /\ loopItem' = NoItem
        /\ UNCHANGED <<writeQueue, pollSuspendUntil>>
  /\ UNCHANGED <<cancelGeneration, settingsSyncQueued, loopHost, loopRead,
                 now, loopOthers>>

\* ---------------------------------------------------------------- reader
\* The bytes `ser.read(1)` may return: nothing, NAK, 'I', 'L', another.
FirstBytes == {"", "NAK", "I", "L", "other"}

\* A read raised at `site`.
ReadFailed(site) ==
  /\ readFailure' = site
  /\ readDisconnected' = (serial' = NoSerial)

\* The head of the loop body: `ser = self._getSerial()` and the read of the
\* first byte.
ReadLoopFirst ==
  /\ loopPc["read"] = "top"
  /\ \/ /\ stopEvent
        /\ Goto("read", "stopped")
        /\ UNCHANGED <<loopConn, loopGhost, loopRead>>
     \/ /\ ~stopEvent /\ serial # NoSerial
        /\ \E first \in FirstBytes :
             /\ Goto("read", CASE first = "I" -> "rest"
                               [] first = "L" -> "table"
                               [] OTHER -> "top")
             /\ IF first \in {"NAK", "other"}
                THEN Progress("read")
                ELSE UNCHANGED loopGhost
        /\ readFailure' = "none"
        /\ readDisconnected' = FALSE
        /\ UNCHANGED loopConn
     \/ /\ ~stopEvent /\ serial # NoSerial
        /\ \E c \in CloseOutcomes(TRUE) :
             /\ CanFail({"read_first"} \cup c)
             /\ Fail("read", {"read_first"} \cup c)
             /\ Outcome("read", {"read_first"} \cup c, "top")
        /\ DisconnectIf(Caught("read_first")
                          /\ DisconnectsOnReadFailure("read_first"))
        /\ ReadFailed("read_first")
  /\ UNCHANGED <<loopQueue, loopHost, loopItem, now, pollSuspendUntil,
                 loopOthers>>

\* `rest = ser.read(3)` and what follows it.  On a port another thread has
\* closed the read raises.
ReadLoopRest ==
  /\ loopPc["read"] = "rest"
  /\ \/ /\ serial = NoSerial
        /\ Outcome("read", {"read_rest"}, "top")
        /\ DisconnectIf(Caught("read_rest")
                          /\ DisconnectsOnReadFailure("read_rest"))
        /\ ReadFailed("read_rest")
        /\ UNCHANGED loopGhost
     \/ /\ serial # NoSerial
        /\ \E c \in CloseOutcomes(DisconnectsOnReadFailure("read_rest")) :
             /\ CanFail({"read_rest"} \cup c)
             /\ Fail("read", {"read_rest"} \cup c)
             /\ Outcome("read", {"read_rest"} \cup c, "top")
        /\ DisconnectIf(Caught("read_rest")
                          /\ DisconnectsOnReadFailure("read_rest"))
        /\ ReadFailed("read_rest")
     \/ /\ serial # NoSerial
        /\ Goto("read", "top")
        /\ UNCHANGED <<loopConn, loopGhost, loopRead>>
     \/ /\ serial # NoSerial
        /\ \E d0 \in DeviceDigits, d1 \in DeviceDigits :
             \E u \in decode_index_counter(<<d0, d1>>, Len(pendingIndexes)) :
               LET r == PopReached(u, pendingIndexes, <<>>) IN
               /\ pendingIndexes' = r[1]
               /\ isSpeaking' = (isSpeaking /\ r[1] # <<>>)
        /\ Progress("read")
        /\ Goto("read", "top")
        /\ UNCHANGED <<serial, needsSettingsSync, loopRead>>
  /\ UNCHANGED <<loopQueue, loopHost, loopItem, now, pollSuspendUntil,
                 loopOthers>>

\* _handleLanguageListResponse: the table is read, or a read raises.
ReadLoopTable ==
  /\ loopPc["read"] = "table"
  /\ \/ /\ serial = NoSerial
        /\ Outcome("read", {"read_table"}, "top")
        /\ DisconnectIf(Caught("read_table")
                          /\ DisconnectsOnReadFailure("read_table"))
        /\ ReadFailed("read_table")
        /\ UNCHANGED loopGhost
     \/ /\ serial # NoSerial
        /\ \E c \in CloseOutcomes(DisconnectsOnReadFailure("read_table")) :
             /\ CanFail({"read_table"} \cup c)
             /\ Fail("read", {"read_table"} \cup c)
             /\ Outcome("read", {"read_table"} \cup c, "top")
        /\ DisconnectIf(Caught("read_table")
                          /\ DisconnectsOnReadFailure("read_table"))
        /\ ReadFailed("read_table")
     \/ /\ serial # NoSerial
        /\ Progress("read")
        /\ Goto("read", "top")
        /\ UNCHANGED <<loopConn, loopRead>>
  /\ UNCHANGED <<loopQueue, loopHost, loopItem, now, pollSuspendUntil,
                 loopOthers>>

\* ------------------------------------------------------------------ poll
pollOthers == <<loopQueue, loopConn, loopHost, loopGhost, loopRead, loopItem,
                now, pollSuspendUntil, loopOthers>>

\* `while not self._stopEvent.is_set():` and `if now < suspendUntil:`, which
\* sleeps and starts over.
PollLoopTop ==
  /\ loopPc["poll"] = "top"
  /\ stopEvent \/ now >= pollSuspendUntil
  /\ Goto("poll", IF stopEvent THEN "stopped" ELSE "index")
  /\ UNCHANGED pollOthers

\* `shouldPoll = self._isSpeaking or bool(self._pendingIndexes)`
PollLoopIndex ==
  /\ loopPc["poll"] = "index"
  /\ Goto("poll", IF isSpeaking \/ pendingIndexes # <<>>
                  THEN "serial" ELSE "top")
  /\ UNCHANGED pollOthers

\* `self._getSerial() is not None`
PollLoopSerial ==
  /\ loopPc["poll"] = "serial"
  /\ Goto("poll", IF serial # NoSerial THEN "enqueue" ELSE "top")
  /\ UNCHANGED pollOthers

\* `self._queueWrite(self._indexQueryCommand)` and the sleep.
PollLoopEnqueue ==
  /\ loopPc["poll"] = "enqueue"
  /\ Len(writeQueue) < MaxLoopQueue
  /\ writeQueue' = IF stopEvent THEN writeQueue
                   ELSE Append(writeQueue, LoopQueryItem)
  /\ Progress("poll")
  /\ Goto("poll", "top")
  /\ UNCHANGED <<cancelGeneration, settingsSyncQueued, loopConn, loopHost,
                 loopRead, loopItem, now, pollSuspendUntil, loopOthers>>

\* ------------------------------------------------------------------ host
\* speak(): one speech item with one index.
HostSpeak ==
  /\ ~stopEvent /\ speakCount < MaxLoopCalls
  /\ Len(writeQueue) < MaxLoopQueue
  /\ speakCount' = speakCount + 1
  /\ writeQueue' = Append(writeQueue, LoopSpeechItem)
  /\ UNCHANGED <<cancelGeneration, settingsSyncQueued, cancelCount,
                 settingCount, stopEvent, loopConn, loopGhost, loopRead,
                 loopItem, loopPc, now, pollSuspendUntil, loopOthers>>

\* What cancel() leaves in the queue: a mute item if it is called for, then
\* the preserved items.
AfterCancel ==
  LET was == isSpeaking \/ pendingIndexes # <<>>
      had == writeQueue # <<>>
      inFlight == loopPc["write"] = "normal" /\ WritingSpeech(loopItem)
      kept(it) == it = StopItem \/ ShouldPreserve(it)
  IN (IF ~stopEvent /\ ShouldMute(serial, was, had, inFlight)
      THEN <<[LoopMuteItem EXCEPT !.generation = cancelGeneration + 1]>>
      ELSE <<>>) \o SelectSeq(writeQueue, kept)

\* cancel()
HostCancel ==
  /\ ~stopEvent /\ cancelCount < MaxLoopCalls
  /\ cancelCount' = cancelCount + 1
  /\ cancelGeneration' = cancelGeneration + 1
  /\ pendingIndexes' = <<>>
  /\ isSpeaking' = FALSE
  /\ writeQueue' = AfterCancel
  /\ UNCHANGED <<settingsSyncQueued, serial, needsSettingsSync, speakCount,
                 settingCount, stopEvent, loopGhost, loopRead, loopItem,
                 loopPc, now, pollSuspendUntil, loopOthers>>

\* A parameter setter with a new value: offline it asks for a full sync,
\* online it queues the command.
HostSetting ==
  /\ ~stopEvent /\ settingCount < MaxLoopCalls
  /\ Len(writeQueue) < MaxLoopQueue
  /\ settingCount' = settingCount + 1
  /\ IF serial = NoSerial
     THEN /\ needsSettingsSync' = TRUE
          /\ writeQueue' = IF settingsSyncQueued THEN writeQueue
                           ELSE Append(writeQueue, LoopSyncItem)
          /\ settingsSyncQueued' = TRUE
     ELSE /\ writeQueue' = Append(writeQueue, LoopCommandItem)
          /\ UNCHANGED <<needsSettingsSync, settingsSyncQueued>>
  /\ UNCHANGED <<cancelGeneration, serial, pendingIndexes, isSpeaking,
                 speakCount, cancelCount, stopEvent, loopGhost, loopRead,
                 loopItem, loopPc, now, pollSuspendUntil, loopOthers>>

\* terminate(): cancel(), stop, wake the writer, _disconnect().
HostTerminate ==
  /\ ~stopEvent
  /\ stopEvent' = TRUE
  /\ cancelGeneration' = cancelGeneration + 1
  /\ writeQueue' = Append(AfterCancel, StopItem)
  /\ DisconnectIf(TRUE)
  /\ \E c \in CloseOutcomes(serial # NoSerial) :
       /\ CanFail(c)
       /\ Fail("host", c)
  /\ UNCHANGED <<settingsSyncQueued, speakCount, cancelCount, settingCount,
                 loopRead, loopItem, loopPc, now, pollSuspendUntil,
                 loopOthers>>

\* time.monotonic() advances.
LoopTick ==
  /\ now < MaxLoopTime
  /\ now' = now + 1
  /\ UNCHANGED <<loopQueue, loopConn, loopHost, loopGhost, loopRead,
                 loopItem, loopPc, pollSuspendUntil, loopOthers>>

LoopNext ==
  \/ WriteLoopGet \/ WriteLoopMute \/ WriteLoopSync \/ WriteLoopNormal
  \/ ReadLoopFirst \/ ReadLoopRest \/ ReadLoopTable
  \/ PollLoopTop \/ PollLoopIndex \/ PollLoopSerial \/ PollLoopEnqueue
  \/ HostSpeak \/ HostCancel \/ HostSetting \/ HostTerminate \/ LoopTick

LoopSpec == Init /\ [][LoopNext]_vars

\* C25: no failure of a serial open, write, read or close ends a worker:
\* no loop is left through an exception, and a loop that has ended was
\* ended by terminate().
C25_WorkersSurviveFailures ==
  \A w \in Workers :
    /\ loopPc[w] # "dead"
    /\ loopPc[w] = "stopped" => stopEvent

\* After a serial call of the write loop and one of the read loop have
\* raised, both loops have handled a later item or byte and the poll loop
\* is at work.
C25_Witness ==
  /\ recovered = {"write", "read"}
  /\ loopPc["poll"] = "enqueue"
  /\ ~stopEvent

\* The poll loop puts an index query into the write queue in this step.
PollEnqueues ==
  /\ loopPc["poll"] = "enqueue"
  /\ loopPc'["poll"] = "top"
  /\ writeQueue' = Append(writeQueue, LoopQueryItem)

PollingSuspended == now < pollSuspendUntil
SpeechOutstanding == isSpeaking \/ pendingIndexes # <<>>

\* C29: the poll loop enqueues an index query only at a moment when polling
\* is not suspended, speech is outstanding and a connection exists.
C29_QueryOnlyWhenDue ==
  [][PollEnqueues =>
       ~PollingSuspended /\ SpeechOutstanding /\ serial # NoSerial]_vars

\* C30: whenever a serial read of the read loop has raised, the port has
\* been disconnected by the time the loop starts its next pass.
C30_ReadFailureDisconnects ==
  loopPc["read"] = "top" /\ readFailure # "none" => readDisconnected

\* =============================================================== BlockSpec
\* The foreground setters that reconnect (_set_port, _set_baudRate,
\* _set_applyBaudRateNow, _set_rom) next to the workers of LifeSpec: which
\* locks a foreground call has to wait for.

\* _set_port with a new value: `self._port = value; self._disconnect()`.
SetPort ==
  /\ lpc["caller"] = "idle"
  /\ ~stopEvent
  /\ lpc' = [lpc EXCEPT !["caller"] = "d_unpublish"]
  /\ lret' = [lret EXCEPT !["caller"] = "idle"]
  /\ UNCHANGED <<serial, connectCount, pendingIndexes, isSpeaking,
                 needsSettingsSync, stopEvent, didInitialConnectCheck,
                 connectLock, serialIoLock, lser, busy, busyKind, connected,
                 closed, queued, loadCount, raised, initialResult,
                 terminated, closedUnderIo, wroteClosed, lateActs,
                 lifeOthers>>

BlockNext ==
  \/ \E t \in Threads : DUnpublish(t)
  \/ \E t \in Threads : DClose(t)
  \/ \E t \in Threads : ELock(t)
  \/ \E t \in Threads : ECheck(t)
  \/ \E t \in Threads : EOpen(t)
  \/ \E t \in Threads : EProbe(t)
  \/ \E t \in Threads : EInit(t)
  \/ \E t \in Threads : EStore(t)
  \/ LWGet \/ LWItem \/ LWConnected \/ LWLock \/ LWWrite \/ LWWritten
  \/ LWUnlock
  \/ LRLoop \/ LRRead
  \/ StartBackgroundConnect \/ QueueSetting \/ SetPort

BlockSpec == Init /\ [][BlockNext]_vars

\* The caller is at `with self._serialIoLock:` of the _disconnect() a
\* setter called.
CallerAtIoLock == lpc["caller"] = "d_unpublish"

\* The write loop holds the I/O lock with `ser.write(chunk)` in progress.
WriterHoldsAcrossWrite ==
  serialIoLock = "writer" /\ busy["writer"] # NoSerial

\* C26: no parameter setter waits for a lock that a worker holds across a
\* serial write or a connection attempt.
C26_SettersNeverWait == ~(CallerAtIoLock /\ WriterHoldsAcrossWrite)

\* ------------------------------------------------- pauses (SpeakSpec)
\* the payload holds a pause filler command
HasFiller(data) ==
  \E p \in 1..(Len(data) - 2) : SubSeq(data, p, p + 2) = TxCommand

\* the sequence has a pause of `ms` and no pause of another positive length
OnlyBreaksOf(seq, ms) ==
  /\ \E i \in 1..Len(seq) : seq[i].type = "break" /\ seq[i].time = ms
  /\ \A i \in 1..Len(seq) :
       seq[i].type = "break" => seq[i].time \in {0, ms}

\* C27: with the option to ignore the delayed character-description pause
\* enabled there is a positive pause length, that of the delayed
\* description, whose pause items speak() skips without a pause filler
\* command.  speak() reads no such option: what it does is what it does
\* with the option enabled.
C27_DelayedPauseSkipped ==
  \E ms \in BreakTimes \ {0} :
    upc = "queued" /\ OnlyBreaksOf(speechSequence, ms)
      => ~HasFiller(outputParts)

\* ------------------------------------------- settings prefix (ParamSpec)
\* f"{n}" and f"{n:X}" of an integer
Signed(n, base) ==
  IF n < 0 THEN <<"-">> \o FormatDigits(0 - n, base)
  ELSE FormatDigits(n, base)

\* f"{n:02X}"
Signed02X(n) == IF n < 0 THEN Signed(n, 16) ELSE Hex02(n)

\* the formant deltas as a list
AsList(f) == [i \in 1..FormantCount |-> f[i - 1]]

\* get_formant_commands_from_deltas, from the position `index` on (0-based)
RECURSIVE FromDeltasLoop(_, _)
FromDeltasLoop(deltas, index) ==
  IF index >= Len(deltas) THEN <<>>
  ELSE LET delta == deltas[index + 1]
           delta_int == Max(FORMANT_DELTA_HARD_MIN,
                            Min(FORMANT_DELTA_HARD_MAX, delta))
           hh == Min(MAX_CHUNK, IF delta_int < 0 THEN 0 - delta_int
                                ELSE delta_int)
       IN (IF delta = 0 THEN <<>>
           ELSE <<AdjustCommand(index, hh,
                                IF delta_int > 0 THEN "+" ELSE "-")>>)
          \o FromDeltasLoop(deltas, index + 1)

get_formant_commands_from_deltas(deltas) == FromDeltasLoop(deltas, 0)

\* _settingsPrefix: the list of commands it joins.  The four mode switches
\* (@P, @S, @H, @X) belong to state this specification does not hold and
\* are left out.
settingsPrefix(formantCommands) ==
  << <<"@", "V">> \o voice \o <<" ">>,
     <<"@", "K">> \o speakerTable \o <<" ">>,
     <<"@", "$">> \o voiceFilter \o <<" ">>,
     <<"@", "M">> \o Signed02X(markSpaceRatio) \o <<" ">>,
     <<"@", "W">> \o Signed(rate, 10) \o <<" ">>,
     <<"@", "F">> \o Signed(pitch, 16) \o <<" ">>,
     <<"@", "A">> \o Signed(volume, 16) \o <<" ">>,
     <<"@", "R">> \o Signed(inflection, 10) \o <<" ">>,
     <<"@", "B">> \o Signed(voicing, 10) \o <<" ">>,
     <<"@", "D">> \o Signed(sentencePause, 16) \o <<" ">>,
     <<"@", "Q">> \o Signed(wordPause, 10) \o <<" ">> >>
  \o formantCommands

IsFilterCommand(command) ==
  Len(command) >= 2 /\ command[1] = "@" /\ command[2] = "$"

\* The write loop takes a settings-sync item and runs one turn of its loop
\* to the end: it connects if it has to, writes the settings prefix built
\* from the live settings, and clears the flags.
SyncSettings ==
  /\ writeQueue # <<>> /\ Head(writeQueue).isSettingsSync
  /\ needsSettingsSync /\ ~stopEvent
  /\ writeQueue' = Tail(writeQueue)
  /\ serial' = IF serial = NoSerial THEN 1 ELSE serial
  /\ LET snapshot == AsList(formantDeltas)
         formantCommands ==
           IF needsSoftReset
           THEN get_formant_commands_from_deltas(snapshot)
           ELSE get_formant_diff_commands(snapshot,
                                          AsList(formantDeltasApplied))
     IN sentFilter' =
          SelectSeq(settingsPrefix(formantCommands), IsFilterCommand)
  /\ needsRomSwitch' = FALSE
  /\ needsSoftReset' = IF softResetRequestedRevision <= settingsRevision
                       THEN FALSE ELSE needsSoftReset
  /\ formantDeltasApplied' = formantDeltas
  /\ needsSettingsSync' = FALSE
  /\ settingsSyncQueued' = FALSE
  /\ UNCHANGED <<voice, rate, pitch, volume, inflection, voicing,
                 sentencePause, wordPause, markSpaceRatio, speakerTable,
                 voiceFilter, rom, formantDeltas,
                 softResetRequestedRevision, settingsRevision, nextId,
                 pendingIndexes, isSpeaking, closed, voiceFilterSelected,
                 paramOthers>>

ParamNext ==
  \/ set_voice \/ set_rate \/ set_pitch \/ set_volume \/ set_inflection
  \/ set_markSpaceRatio \/ set_speakerTable \/ set_voiceFilter \/ set_rom
  \/ set_sentencePause \/ set_wordPause \/ set_voicing
  \/ setFormantDelta \/ set_resetFormantTuning \/ SyncSettings

ParamSpec == Init /\ [][ParamNext]_vars

\* C28: a settings prefix holds the voice-filter command '@$' only when a
\* voice filter has been explicitly selected.
C28_FilterOnlyWhenSelected == sentFilter # <<>> => voiceFilterSelected

\* ------------------------------------------- an index response is read
\* The `if first == b"I":` branch of _readLoop with _onUnitsRemaining and
\* its notifications, on every three bytes (or fewer) the port may deliver.
responseOthers == <<writeQueue, cancelGeneration, isWritingSpeech, serial,
                    needsSettingsSync, settingsSyncQueued, settingsRevision,
                    connectThread, deviceReplies, writerVars, readerVars,
                    pollVars, callerVars, nextId, lastWrite, maxWritten,
                    wroteStale, pendingGen, sweepIn, sweepOut, cancelFired,
                    hadQueuedSpeech, cancelCount, settingCount, pollCount,
                    connectCount, failureCount, lifeVars, timedVars,
                    speakVars, paramVars, ixFunc, ixPending, ixResult,
                    formantVars, textVars, loopVars, prefixVars,
                    backoffVars,
                    syncVars,
                    autoVars,
                    lockVars>>

\* the terminators probeIndexResponseDirect accepts after the two digits
IndexTerminators == {"T", "M", "t", "m"}

\* bytes the port may deliver after the marker: hex digits, a byte that is
\* no hex digit and a terminator
ResponseBytes == {"0", "1", "g", "T"}
Responses == UNION {[1..n -> ResponseBytes] : n \in 0..3}

\* index lists an item may carry: the sentinel after the caller's indexes
ItemIndexes == {<<INTERNAL_DONE_INDEX>>, <<1, INTERNAL_DONE_INDEX>>}

\* The write loop has written a speech item: its finally clause extends the
\* pending queue and sets the speaking flag.
ItemWritten ==
  /\ speakCount < MaxSpeak
  /\ \E indexes \in ItemIndexes :
       /\ pendingIndexes' = pendingIndexes \o indexes
       /\ sent' = sent \o SelectSeq(indexes, ShouldReport)
  /\ isSpeaking' = TRUE
  /\ speakCount' = speakCount + 1
  /\ UNCHANGED <<reported, doneCount, ixBytes, responseOthers>>

\* `rest = ser.read(3)` and what the loop does with it: fewer than three
\* bytes end the pass; decode_index_counter gets two bytes, on which it does
\* not raise, and _onUnitsRemaining pops and notifies.
ReadIndexResponse ==
  /\ \E rest \in Responses :
       /\ ixBytes' = rest
       /\ IF Len(rest) # 3
          THEN UNCHANGED <<pendingIndexes, isSpeaking, reported, doneCount>>
          ELSE \E r \in {PopReached(u, pendingIndexes, <<>>) :
                           u \in decode_index_counter(SubSeq(rest, 1, 2),
                                                      Len(pendingIndexes))} :
                 /\ pendingIndexes' = r[1]
                 /\ isSpeaking' = (isSpeaking /\ r[1] # <<>>)
                 /\ reported' = reported \o SelectSeq(r[2], ShouldReport)
                 /\ doneCount' =
                      doneCount + (IF isSpeaking /\ r[1] = <<>> THEN 1 ELSE 0)
  /\ UNCHANGED <<sent, speakCount, responseOthers>>

ResponseNext == ItemWritten \/ ReadIndexResponse

ResponseSpec == Init /\ [][ResponseNext]_vars

\* two hex digits and an accepted terminator
WellFormedResponse(rest) ==
  /\ Len(rest) = 3
  /\ TwoHexDigits(SubSeq(rest, 1, 2))
  /\ rest[3] \in IndexTerminators

\* C31: when the bytes after an index-response marker are not two hex
\* digits and an accepted terminator, the read loop retires no pending
\* index, leaves the speaking flag alone and fires no notification.
C31_MalformedResponseAbandoned ==
  [][ReadIndexResponse /\ ~WellFormedResponse(ixBytes')
       => UNCHANGED <<pendingIndexes, isSpeaking, reported, doneCount>>]_vars

\* ----------------------------------------- backoff after write timeouts
\* The write loop's writes and their timeouts, the read loop's disconnect
\* and the connection attempts of the write thread and of the background
\* connect thread, in ticks of one second.
MaxBackoffFailures == 2
MaxBackoffTime == 3

CONNECT_BACKOFF_ON_WRITE_TIMEOUT_SECONDS == 2
MAX_BACKOFF_SECONDS == 30

backoffOthers == <<writeQueue, cancelGeneration, pendingIndexes, isSpeaking,
                   isWritingSpeech, needsSettingsSync, settingsSyncQueued,
                   settingsRevision, connectThread, deviceReplies,
                   writerVars, readerVars, pollVars, callerVars, history,
                   speakCount, cancelCount, settingCount, pollCount,
                   stopEvent, didInitialConnectCheck, serialIoLock, lret,
                   busy, busyKind, connected, queued, loadCount, raised,
                   initialResult, terminated, closedUnderIo, wroteClosed,
                   lateActs, overallDeadline, probeDeadline, tpc, tryNo,
                   candLeft, sawBusyPortError, connectResult, returnedAt,
                   speakVars, paramVars, indexVars, formantVars, textVars,
                   loopVars, prefixVars,
                   syncVars,
                   autoVars,
                   lockVars>>

\* Variant of Backoff without the doubling.
Backoff_Flat(count) == CONNECT_BACKOFF_ON_WRITE_TIMEOUT_SECONDS

\* `min(30.0, _CONNECT_BACKOFF_ON_WRITE_TIMEOUT_SECONDS * (2 ** max(0, count - 1)))`
Backoff(count) ==
  Min(MAX_BACKOFF_SECONDS,
      CONNECT_BACKOFF_ON_WRITE_TIMEOUT_SECONDS * (2 ^ Max(0, count - 1)))

\* the threads that call _ensureConnected here, and where each goes back to
Connectors == {"writer", "connect"}
Home(t) == IF t = "writer" THEN "w_get" ELSE "dead"
At(t, pc) == lpc' = [lpc EXCEPT ![t] = pc]

\* `ser = self._getSerial()` at the head of the write loop's body: with a
\* port the item is written, without one the loop calls _ensureConnected.
BackoffGet ==
  /\ lpc["writer"] = "w_get"
  /\ IF serial # NoSerial
     THEN /\ lser' = [lser EXCEPT !["writer"] = serial]
          /\ At("writer", "w_write")
     ELSE /\ At("writer", "b_lock")
          /\ UNCHANGED lser
  /\ UNCHANGED <<serial, connectLock, closed, connectCount, failureCount,
                 now, backoffVars, backoffOthers>>

\* writeBytes on the handle the loop holds: the write goes through, or it
\* raises.  A SerialTimeoutException is noted (noteWriteTimeout) before
\* _disconnect(); on a handle that was closed the write raises another
\* exception.
BackoffWrite ==
  /\ lpc["writer"] = "w_write"
  /\ \/ /\ lser["writer"] \notin closed
        /\ UNCHANGED <<serial, closed, failureCount, backoffVars>>
     \/ /\ lser["writer"] \notin closed
        /\ failureCount < MaxBackoffFailures
        /\ failureCount' = failureCount + 1
        /\ serialWriteTimeoutCount' = serialWriteTimeoutCount + 1
        /\ connectBackoffUntil' =
             Max(connectBackoffUntil, now + Backoff(serialWriteTimeoutCount'))
        /\ lastTimeout' = [at |-> now, n |-> serialWriteTimeoutCount']
        /\ serial' = NoSerial
        /\ closed' = IF serial # NoSerial THEN closed \cup {serial} ELSE closed
     \/ /\ failureCount < MaxBackoffFailures
        /\ failureCount' = failureCount + 1
        /\ serial' = NoSerial
        /\ closed' = IF serial # NoSerial THEN closed \cup {serial} ELSE closed
        /\ UNCHANGED backoffVars
  /\ At("writer", "w_get")
  /\ UNCHANGED <<lser, connectLock, connectCount, now, backoffOthers>>

\* `first = ser.read(1)` raises and the read loop calls _disconnect(): the
\* handle is unpublished ...
BackoffReadFails ==
  /\ lpc["reader"] = "r_loop" /\ serial # NoSerial
  /\ failureCount < MaxBackoffFailures
  /\ failureCount' = failureCount + 1
  /\ lser' = [lser EXCEPT !["reader"] = serial]
  /\ serial' = NoSerial
  /\ At("reader", "d_close")
  /\ UNCHANGED <<connectLock, closed, connectCount, now, backoffVars,
                 backoffOthers>>

\* ... and then closed.
BackoffClose ==
  /\ lpc["reader"] = "d_close"
  /\ closed' = closed \cup {lser["reader"]}
  /\ At("reader", "r_loop")
  /\ UNCHANGED <<serial, lser, connectLock, connectCount, failureCount, now,
                 backoffVars, backoffOthers>>

\* _startBackgroundConnect, called by speak() and the setters.
BackoffStartConnect ==
  /\ ~stopEvent
  /\ ~(now < connectBackoffUntil)
  /\ serial = NoSerial
  /\ lpc["connect"] = "dead"
  /\ At("connect", "b_lock")
  /\ UNCHANGED <<serial, lser, connectLock, closed, connectCount,
                 failureCount, now, backoffVars, backoffOthers>>

\* The head of _ensureConnected: `with self._connectLock:`, the backoff
\* test and the test for a published handle.
BackoffCheck ==
  /\ \E t \in Connectors :
       /\ lpc[t] = "b_lock" /\ connectLock = Free
       /\ IF now < connectBackoffUntil \/ serial # NoSerial
          THEN /\ At(t, Home(t))
               /\ UNCHANGED connectLock
          ELSE /\ At(t, "b_open")
               /\ connectLock' = t
  /\ UNCHANGED <<serial, lser, closed, connectCount, failureCount, now,
                 backoffVars, backoffOthers>>

\* openSerial: the port is opened, or it cannot be and the call returns
\* False.
BackoffOpen ==
  /\ \E t \in Connectors :
       /\ lpc[t] = "b_open"
       /\ \/ /\ CanConnect
             /\ connectCount' = NewHandle
             /\ lser' = [lser EXCEPT ![t] = NewHandle]
             /\ At(t, "b_final")
             /\ UNCHANGED connectLock
          \/ /\ At(t, Home(t))
             /\ connectLock' = Free
             /\ UNCHANGED <<lser, connectCount>>
  /\ UNCHANGED <<serial, closed, failureCount, now, backoffVars,
                 backoffOthers>>

\* finalizeConnection: the count and the deadline are reset and the handle
\* is published; or the probe got no answer and the port is closed again.
BackoffFinalize ==
  /\ \E t \in Connectors :
       /\ lpc[t] = "b_final"
       /\ \/ /\ serialWriteTimeoutCount' = 0
             /\ connectBackoffUntil' = 0
             /\ lastTimeout' = [at |-> 0, n |-> 0]
             /\ serial' = lser[t]
             /\ UNCHANGED closed
          \/ /\ closed' = closed \cup {lser[t]}
             /\ UNCHANGED <<serial, backoffVars>>
       /\ At(t, Home(t))
  /\ connectLock' = Free
  /\ UNCHANGED <<lser, connectCount, failureCount, now, backoffOthers>>

BackoffTick ==
  /\ now < MaxBackoffTime
  /\ now' = now + 1
  /\ UNCHANGED <<serial, lser, lpc, connectLock, closed, connectCount,
                 failureCount, backoffVars, backoffOthers>>

BackoffNext ==
  \/ BackoffGet \/ BackoffWrite \/ BackoffReadFails \/ BackoffClose
  \/ BackoffStartConnect \/ BackoffCheck \/ BackoffOpen \/ BackoffFinalize
  \/ BackoffTick

BackoffSpec == Init /\ [][BackoffNext]_vars

\* a connection attempt opens a port, or tries to
OpensPort ==
  \E t \in Connectors : lpc[t] = "b_open" /\ lpc'[t] # "b_open"

\* a connection attempt has succeeded
ConnectionMade == serial = NoSerial /\ serial' # NoSerial

\* C32: after the n-th write timeout since the last successful connection
\* no connection attempt opens a port until min(30, 2 * 2^(n-1)) seconds
\* have passed since that timeout; a successful connection resets the
\* timeout count and the backoff deadline to zero.
C32_BackoffBeforeOpen ==
  [][/\ OpensPort /\ lastTimeout.n > 0
          => now >= lastTimeout.at + Min(30, 2 * (2 ^ (lastTimeout.n - 1)))
     /\ ConnectionMade
          => serialWriteTimeoutCount' = 0 /\ connectBackoffUntil' = 0]_vars

\* ------------------------------------------------- the settings sync loop
\* The `if item.isSettingsSync:` branch of _writeLoop statement by
\* statement, the setters that ask for a sync, and _disconnect() called by
\* another thread.  formantDeltasSnapshot is held in fDesired and
\* formantCommands in fCommands; the device adds up the formant commands it
\* is sent and forgets them on a soft reset.
MaxSyncFailures == 1

syncOthers == <<cancelGeneration, pendingIndexes, isSpeaking,
                isWritingSpeech, connectThread, deviceReplies, offset,
                readerVars, pollVars, callerVars, lastWrite, maxWritten,
                wroteStale, reported, doneCount, sent, pendingGen, sweepIn,
                sweepOut, cancelFired, hadQueuedSpeech, speakCount,
                cancelCount, settingCount, pollCount, lifeVars, timedVars,
                speakVars, voice, pitch, volume, inflection, voicing,
                sentencePause, wordPause, markSpaceRatio, speakerTable,
                voiceFilter, indexVars, fCalled, fApplied, textVars,
                loopVars, prefixVars, backoffVars,
                autoVars,
                lockVars>>

\* values the host sets here
SyncDeltas == {0, 1}
SyncRates == {3, 4}
SyncRoms == {<<"1">>, <<"2">>}

NoDeltas == [i \in 0..(FormantCount - 1) |-> 0]

\* the net adjustment a list of formant commands makes to formant i
NetAdjustment(commands, i) ==
  LET Mine(c) == CommandIndex(c) = UpperHexChars[i + 1]
      Plus(c) == Mine(c) /\ CommandSign(c) = "+"
      Minus(c) == Mine(c) /\ CommandSign(c) = "-"
  IN SumMagnitudes(SelectSeq(commands, Plus))
       - SumMagnitudes(SelectSeq(commands, Minus))

\* the device after it has taken a list of formant commands
DeviceAfter(commands) ==
  [i \in 0..(FormantCount - 1) |->
     deviceFormants[i] + NetAdjustment(commands, i)]

\* a write of the sync loop goes to the handle the loop fetched
WriteGoesThrough == ser # NoSerial /\ ser = serial

\* `item = self._writeQueue.get()`: a settings-sync item enters the loop, a
\* setting command is written.
SyncGet ==
  /\ wpc = "get" /\ writeQueue # <<>>
  /\ item' = Head(writeQueue)
  /\ writeQueue' = Tail(writeQueue)
  /\ wpc' = IF Head(writeQueue).isSettingsSync THEN "s_loop" ELSE "s_command"
  /\ UNCHANGED <<nextId, settingsSyncQueued, needsSettingsSync,
                 settingsRevision, serial, connectCount, failureCount, ser,
                 startRevision, fDesired, fCommands, rate, rom,
                 formantDeltas, formantDeltasApplied, needsSoftReset,
                 softResetRequestedRevision, needsRomSwitch, deviceFormants,
                 rebaselined, sentPrefix, syncOthers>>

\* A setting command: without a port it waits for a connection; with one it
\* is written, or the write fails and the loop disconnects.
SyncWriteCommand ==
  /\ wpc = "s_command"
  /\ \/ /\ serial = NoSerial /\ CanConnect
        /\ serial' = NewHandle
        /\ connectCount' = NewHandle
        /\ UNCHANGED <<wpc, item, failureCount, needsSoftReset,
                       formantDeltasApplied, needsSettingsSync, rebaselined>>
     \/ /\ serial # NoSerial
        /\ wpc' = "get" /\ item' = NoItem
        /\ UNCHANGED <<serial, connectCount, failureCount, needsSoftReset,
                       formantDeltasApplied, needsSettingsSync, rebaselined>>
     \/ /\ serial # NoSerial /\ failureCount < MaxSyncFailures
        /\ UNCHANGED connectCount
        /\ failureCount' = failureCount + 1
        /\ serial' = NoSerial
        /\ needsSoftReset' = TRUE
        /\ formantDeltasApplied' = NoDeltas
        /\ needsSettingsSync' = TRUE
        /\ rebaselined' = TRUE
        /\ wpc' = "get" /\ item' = NoItem
  /\ UNCHANGED <<writeQueue, nextId, settingsSyncQueued, settingsRevision,
                 ser, startRevision, fDesired, fCommands, rate, rom,
                 formantDeltas, softResetRequestedRevision, needsRomSwitch,
                 deviceFormants, sentPrefix, syncOthers>>

\* `while self._needsSettingsSync and not self._stopEvent.is_set():`
SyncTest ==
  /\ wpc = "s_loop"
  /\ wpc' = IF needsSettingsSync /\ ~stopEvent THEN "s_serial" ELSE "s_finally"
  /\ UNCHANGED <<writeQueue, nextId, settingsSyncQueued, needsSettingsSync,
                 settingsRevision, serial, connectCount, failureCount, item,
                 ser, startRevision, fDesired, fCommands, rate, rom,
                 formantDeltas, formantDeltasApplied, needsSoftReset,
                 softResetRequestedRevision, needsRomSwitch, deviceFormants,
                 rebaselined, sentPrefix, syncOthers>>

\* `finally: self._settingsSyncQueued = self._needsSettingsSync`
SyncFinally ==
  /\ wpc = "s_finally"
  /\ settingsSyncQueued' = needsSettingsSync
  /\ wpc' = "get" /\ item' = NoItem
  /\ UNCHANGED <<writeQueue, nextId, needsSettingsSync, settingsRevision,
                 serial, connectCount, failureCount, ser, startRevision,
                 fDesired, fCommands, rate, rom, formantDeltas,
                 formantDeltasApplied, needsSoftReset,
                 softResetRequestedRevision, needsRomSwitch, deviceFormants,
                 rebaselined, sentPrefix, syncOthers>>

\* `ser = self._getSerial()`, with _ensureConnected() where there is no
\* port (it connects, or the loop sleeps and tests again), and
\* `startRevision = self._settingsRevision`.
SyncSerial ==
  /\ wpc = "s_serial"
  /\ \/ /\ serial # NoSerial
        /\ ser' = serial
        /\ startRevision' = settingsRevision
        /\ wpc' = "s_rom"
        /\ UNCHANGED <<serial, connectCount>>
     \/ /\ serial = NoSerial /\ CanConnect
        /\ serial' = NewHandle
        /\ connectCount' = NewHandle
        /\ ser' = NewHandle
        /\ startRevision' = settingsRevision
        /\ wpc' = "s_rom"
     \/ /\ serial = NoSerial
        /\ wpc' = "s_loop"
        /\ UNCHANGED <<serial, connectCount, ser, startRevision>>
  /\ UNCHANGED <<writeQueue, nextId, settingsSyncQueued, needsSettingsSync,
                 settingsRevision, failureCount, item, fDesired, fCommands,
                 rate, rom, formantDeltas, formantDeltasApplied,
                 needsSoftReset, softResetRequestedRevision, needsRomSwitch,
                 deviceFormants, rebaselined, sentPrefix, syncOthers>>

\* `if self._needsRomSwitch:` the ROM is selected, which may reset the
\* device; then `formantDeltasSnapshot = list(self._formantDeltas)`.
SyncRomAndSnapshot ==
  /\ wpc = "s_rom"
  /\ \/ /\ ~needsRomSwitch \/ WriteGoesThrough
        /\ IF needsRomSwitch
           THEN /\ needsRomSwitch' = FALSE
                /\ deviceFormants' \in {deviceFormants, NoDeltas}
                /\ rebaselined' = TRUE
           ELSE UNCHANGED <<needsRomSwitch, deviceFormants, rebaselined>>
        /\ fDesired' = AsList(formantDeltas)
        /\ wpc' = "s_flag"
        /\ UNCHANGED <<serial, needsSoftReset, formantDeltasApplied,
                       needsSettingsSync>>
     \/ /\ needsRomSwitch /\ ~WriteGoesThrough
        /\ serial' = NoSerial
        /\ needsSoftReset' = TRUE
        /\ formantDeltasApplied' = NoDeltas
        /\ needsSettingsSync' = TRUE
        /\ rebaselined' = TRUE
        /\ wpc' = "s_loop"
        /\ UNCHANGED <<needsRomSwitch, deviceFormants, fDesired>>
  /\ UNCHANGED <<writeQueue, nextId, settingsSyncQueued, settingsRevision,
                 connectCount, failureCount, item, ser, startRevision,
                 fCommands, rate, rom, formantDeltas,
                 softResetRequestedRevision, sentPrefix, syncOthers>>

\* `needsSoftReset = self._needsSoftReset` and the commands: all deltas
\* after a soft reset, else the difference to the applied deltas.
SyncCommands ==
  /\ wpc = "s_flag"
  /\ IF needsSoftReset
     THEN /\ fCommands' = get_formant_commands_from_deltas(fDesired)
          /\ wpc' = "s_reset"
     ELSE /\ fCommands' =
               get_formant_diff_commands(fDesired,
                                         AsList(formantDeltasApplied))
          /\ wpc' = "s_prefix"
  /\ UNCHANGED <<writeQueue, nextId, settingsSyncQueued, needsSettingsSync,
                 settingsRevision, serial, connectCount, failureCount, item,
                 ser, startRevision, fDesired, rate, rom, formantDeltas,
                 formantDeltasApplied, needsSoftReset,
                 softResetRequestedRevision, needsRomSwitch, deviceFormants,
                 rebaselined, sentPrefix, syncOthers>>

\* `writeBytes(ser, b"@J " + _CR, ...)`: the soft reset.
SyncSoftReset ==
  /\ wpc = "s_reset"
  /\ \/ /\ WriteGoesThrough
        /\ deviceFormants' = NoDeltas
        /\ rebaselined' = TRUE
        /\ wpc' = "s_prefix"
        /\ UNCHANGED <<failureCount, serial, needsSoftReset,
                       formantDeltasApplied, needsSettingsSync>>
     \/ /\ ~WriteGoesThrough
           \/ failureCount < MaxSyncFailures
        /\ failureCount' = IF WriteGoesThrough THEN failureCount + 1
                           ELSE failureCount
        /\ serial' = NoSerial
        /\ needsSoftReset' = TRUE
        /\ formantDeltasApplied' = NoDeltas
        /\ needsSettingsSync' = TRUE
        /\ rebaselined' = TRUE
        /\ wpc' = "s_loop"
        /\ UNCHANGED deviceFormants
  /\ UNCHANGED <<writeQueue, nextId, settingsSyncQueued, settingsRevision,
                 connectCount, item, ser, startRevision, fDesired,
                 fCommands, rate, rom, formantDeltas,
                 softResetRequestedRevision, needsRomSwitch, sentPrefix,
                 syncOthers>>

\* `writeBytes(ser, self._settingsPrefix(formantCommands=...) + _CR, ...)`
SyncPrefix ==
  /\ wpc = "s_prefix"
  /\ \/ /\ WriteGoesThrough
        /\ sentPrefix' = settingsPrefix(fCommands)
        /\ deviceFormants' = DeviceAfter(fCommands)
        /\ rebaselined' = FALSE
        /\ wpc' = "s_done"
        /\ UNCHANGED <<failureCount, serial, needsSoftReset,
                       formantDeltasApplied, needsSettingsSync>>
     \/ /\ ~WriteGoesThrough
           \/ failureCount < MaxSyncFailures
        /\ failureCount' = IF WriteGoesThrough THEN failureCount + 1
                           ELSE failureCount
        /\ serial' = NoSerial
        /\ needsSoftReset' = TRUE
        /\ formantDeltasApplied' = NoDeltas
        /\ needsSettingsSync' = TRUE
        /\ rebaselined' = TRUE
        /\ wpc' = "s_loop"
        /\ UNCHANGED <<deviceFormants, sentPrefix>>
  /\ UNCHANGED <<writeQueue, nextId, settingsSyncQueued, settingsRevision,
                 connectCount, item, ser, startRevision, fDesired,
                 fCommands, rate, rom, formantDeltas,
                 softResetRequestedRevision, needsRomSwitch, syncOthers>>

\* What follows the last write: the soft-reset flag is cleared unless a
\* newer change asked for one, the snapshot becomes the applied deltas and
\* the sync is needed again only if the revision moved.
SyncDone ==
  /\ wpc = "s_done"
  /\ needsSoftReset' = IF softResetRequestedRevision <= startRevision
                       THEN FALSE ELSE needsSoftReset
  /\ formantDeltasApplied' = [i \in 0..(FormantCount - 1) |-> fDesired[i + 1]]
  /\ needsSettingsSync' = (settingsRevision # startRevision)
  /\ wpc' = "s_loop"
  /\ UNCHANGED <<writeQueue, nextId, settingsSyncQueued, settingsRevision,
                 serial, connectCount, failureCount, item, ser,
                 startRevision, fDesired, fCommands, rate, rom,
                 formantDeltas, softResetRequestedRevision, needsRomSwitch,
                 deviceFormants, rebaselined, sentPrefix, syncOthers>>

\* _setFormantDelta(0, delta) with a new delta.
SyncSetFormant ==
  /\ settingsRevision < MaxRevision
  /\ \E delta \in SyncDeltas \ {formantDeltas[0]} :
       formantDeltas' = [formantDeltas EXCEPT ![0] = delta]
  /\ needsSoftReset' = TRUE
  /\ formantDeltasApplied' = NoDeltas
  /\ settingsRevision' = settingsRevision + 1
  /\ softResetRequestedRevision' = settingsRevision + 1
  /\ needsSettingsSync' = TRUE
  /\ writeQueue' = writeQueue \o SyncItems(~stopEvent)
  /\ nextId' = nextId + Len(SyncItems(~stopEvent))
  /\ settingsSyncQueued' = (settingsSyncQueued \/ ~stopEvent)
  /\ UNCHANGED <<serial, connectCount, failureCount, wpc, item, ser,
                 startRevision, fDesired, fCommands, rate, rom,
                 needsRomSwitch, deviceFormants, rebaselined, sentPrefix,
                 syncOthers>>

\* _set_rate with a new rate: _sendSettingCommand queues the command with a
\* port and asks for a sync without one.
SyncSetRate ==
  /\ settingsRevision < MaxRevision
  /\ \E new \in SyncRates \ {rate} : rate' = new
  /\ settingsRevision' = settingsRevision + 1
  /\ IF serial = NoSerial
     THEN /\ needsSettingsSync' = TRUE
          /\ writeQueue' = writeQueue \o SyncItems(~stopEvent)
          /\ nextId' = nextId + Len(SyncItems(~stopEvent))
          /\ settingsSyncQueued' = (settingsSyncQueued \/ ~stopEvent)
     ELSE /\ writeQueue' = Append(writeQueue,
               WriteItem(nextId, SETTING_COMMAND_LEN, <<>>, cancelGeneration,
                         FALSE, FALSE, FALSE))
          /\ nextId' = nextId + 1
          /\ UNCHANGED <<needsSettingsSync, settingsSyncQueued>>
  /\ UNCHANGED <<serial, connectCount, failureCount, wpc, item, ser,
                 startRevision, fDesired, fCommands, rom, formantDeltas,
                 formantDeltasApplied, needsSoftReset,
                 softResetRequestedRevision, needsRomSwitch, deviceFormants,
                 rebaselined, sentPrefix, syncOthers>>

\* _set_rom with a new slot: the ROM switch and a sync are asked for, then
\* _disconnect().
SyncSetRom ==
  /\ settingsRevision < MaxRevision
  /\ \E new \in SyncRoms \ {rom} : rom' = new
  /\ needsRomSwitch' = TRUE
  /\ settingsRevision' = settingsRevision + 1
  /\ needsSettingsSync' = TRUE
  /\ writeQueue' = writeQueue \o SyncItems(~stopEvent)
  /\ nextId' = nextId + Len(SyncItems(~stopEvent))
  /\ settingsSyncQueued' = (settingsSyncQueued \/ ~stopEvent)
  /\ serial' = NoSerial
  /\ needsSoftReset' = TRUE
  /\ formantDeltasApplied' = NoDeltas
  /\ rebaselined' = TRUE
  /\ UNCHANGED <<connectCount, failureCount, wpc, item, ser, startRevision,
                 fDesired, fCommands, rate, formantDeltas,
                 softResetRequestedRevision, deviceFormants, sentPrefix,
                 syncOthers>>

\* _disconnect() called by the read loop after a failed read.
SyncDisconnect ==
  /\ serial # NoSerial /\ failureCount < MaxSyncFailures
  /\ failureCount' = failureCount + 1
  /\ serial' = NoSerial
  /\ needsSoftReset' = TRUE
  /\ formantDeltasApplied' = NoDeltas
  /\ needsSettingsSync' = TRUE
  /\ rebaselined' = TRUE
  /\ UNCHANGED <<writeQueue, nextId, settingsSyncQueued, settingsRevision,
                 connectCount, wpc, item, ser, startRevision, fDesired,
                 fCommands, rate, rom, formantDeltas,
                 softResetRequestedRevision, needsRomSwitch, deviceFormants,
                 sentPrefix, syncOthers>>

SyncNext ==
  \/ SyncGet \/ SyncWriteCommand \/ SyncTest \/ SyncFinally \/ SyncSerial
  \/ SyncRomAndSnapshot \/ SyncCommands \/ SyncSoftReset \/ SyncPrefix
  \/ SyncDone \/ SyncSetFormant \/ SyncSetRate \/ SyncSetRom
  \/ SyncDisconnect

SyncSpec == Init /\ [][SyncNext]_vars

\* a turn of the sync loop has written everything and stores its snapshot
SyncCompletes == wpc = "s_done" /\ wpc' = "s_loop"

\* a turn of the sync loop computes the difference to the applied deltas
ComputesDiff == wpc = "s_flag" /\ wpc' = "s_prefix"

\* C33: when a settings sync completes the device's net formant
\* adjustments since its last soft reset are the applied deltas the sync
\* stores; and once a soft reset, a ROM switch or a disconnect has come
\* after the last settings prefix, the difference is computed only against
\* applied deltas that are zero.
C33_AppliedDeltasMatchDevice ==
  [][/\ SyncCompletes => formantDeltasApplied' = deviceFormants
     /\ ComputesDiff /\ rebaselined => formantDeltasApplied = NoDeltas]_vars

\* a settings-sync placeholder waits in the write queue or is the item the
\* write loop holds
SyncItemQueued == \E i \in 1..Len(writeQueue) : writeQueue[i].isSettingsSync
SyncItemInHand == item # NoItem /\ item.isSettingsSync
SyncItemLive == SyncItemQueued \/ SyncItemInHand

\* C36: whenever _settingsSyncQueued is set a settings-sync placeholder is
\* in the write queue or is being processed by the write loop.
C36_QueuedFlagHasItem == settingsSyncQueued => SyncItemLive

\* The write thread keeps running, and an attempt to connect succeeds in
\* the end while a port can be opened.
SyncWriter ==
  \/ SyncGet \/ SyncWriteCommand \/ SyncTest \/ SyncFinally \/ SyncSerial
  \/ SyncRomAndSnapshot \/ SyncCommands \/ SyncSoftReset \/ SyncPrefix
  \/ SyncDone

SyncConnects == SyncSerial /\ wpc' = "s_rom"

SyncFairSpec == SyncSpec /\ WF_vars(SyncWriter) /\ SF_vars(SyncConnects)

\* a port is open or one can be opened
ConnectionAvailable == serial # NoSerial \/ CanConnect

\* the last settings prefix written carries the parameter values of now
PrefixCurrent ==
  /\ Len(sentPrefix) >= Len(settingsPrefix(<<>>))
  /\ SubSeq(sentPrefix, 1, Len(settingsPrefix(<<>>))) = settingsPrefix(<<>>)

\* C34: while a connection stays available, a settings sync that is needed
\* and has its placeholder queued or in the write loop leads to a state
\* where the sync is no longer needed and the last settings prefix written
\* carries the current value of every parameter.
C34_NeededSyncIsSent ==
  []ConnectionAvailable
    => ((needsSettingsSync /\ SyncItemLive)
          ~> (~needsSettingsSync /\ PrefixCurrent))

\* -------------------------------------------- the auto-cancel decision
\* speak() looks at the write-state flag, at the index state and at the
\* write queue one after the other, each under its own lock or none, while
\* the write and read threads run.  Every other step is the one of Spec.
autoOthers == <<lifeVars, timedVars, speakVars, paramVars, indexVars,
                formantVars, textVars, loopVars, prefixVars, backoffVars,
                syncVars,
                lockVars>>

\* what speak() counts as prior speech
PriorSpeech ==
  isWritingSpeech \/ isSpeaking \/ pendingIndexes # <<>> \/ writeQueue # <<>>

Looked == [always |-> speakHistory.always /\ PriorSpeech,
           ever |-> speakHistory.ever \/ PriorSpeech,
           generation |-> speakHistory.generation]

\* speak() is called and adds up the text of the sequence.
SpeakBegin ==
  /\ cpc = "idle" /\ speakCount < MaxSpeak /\ EventBudget
  /\ speakCount' = speakCount + 1
  /\ \E textChars \in TextLengths, withIndex \in BOOLEAN :
       /\ speakArgs' = <<textChars,
                         IF withIndex
                         THEN <<speakCount + 1, INTERNAL_DONE_INDEX>>
                         ELSE <<INTERNAL_DONE_INDEX>>>>
       /\ cpc' = IF textChars > 1 THEN "a_flag" ELSE "s_enqueue"
  /\ autoCancel' = FALSE
  /\ speakHistory' = [always |-> PriorSpeech, ever |-> PriorSpeech,
                      generation |-> cancelGeneration]
  /\ UNCHANGED <<shared, writerVars, readerVars, pollVars, history>>
  /\ UNCHANGED <<wasSpeaking, hadPendingQueue, inFlightSpeech, cancelSer,
                 preserved, hasSpeech>>
  /\ UNCHANGED <<cancelCount, settingCount, pollCount, connectCount,
                 failureCount>>
  /\ UNCHANGED autoOthers

\* `with self._writeStateLock: inFlightSpeech = self._isWritingSpeech`
SpeakReadFlag ==
  /\ cpc = "a_flag"
  /\ inFlightSpeech' = isWritingSpeech
  /\ speakHistory' = Looked
  /\ cpc' = "a_index"
  /\ UNCHANGED <<shared, writerVars, readerVars, pollVars, history, counters>>
  /\ UNCHANGED <<speakArgs, autoCancel, wasSpeaking, hadPendingQueue,
                 cancelSer, preserved, hasSpeech>>
  /\ UNCHANGED autoOthers

\* `with self._indexLock: hasSpeech = self._isSpeaking or
\* bool(self._pendingIndexes)`
SpeakReadIndex ==
  /\ cpc = "a_index"
  /\ hasSpeech' = (isSpeaking \/ pendingIndexes # <<>>)
  /\ speakHistory' = Looked
  /\ cpc' = "a_queue"
  /\ UNCHANGED <<shared, writerVars, readerVars, pollVars, history, counters>>
  /\ UNCHANGED <<speakArgs, autoCancel, wasSpeaking, hadPendingQueue,
                 inFlightSpeech, cancelSer, preserved>>
  /\ UNCHANGED autoOthers

\* `if inFlightSpeech or hasSpeech or not self._writeQueue.empty():
\* self.cancel()`
SpeakReadQueue ==
  /\ cpc = "a_queue"
  /\ IF inFlightSpeech \/ hasSpeech \/ writeQueue # <<>>
     THEN autoCancel' = TRUE /\ cpc' = "c_index"
     ELSE autoCancel' = FALSE /\ cpc' = "s_enqueue"
  /\ inFlightSpeech' = FALSE /\ hasSpeech' = FALSE
  /\ speakHistory' = Looked
  /\ UNCHANGED <<shared, writerVars, readerVars, pollVars, history, counters>>
  /\ UNCHANGED <<speakArgs, wasSpeaking, hadPendingQueue, cancelSer,
                 preserved>>
  /\ UNCHANGED autoOthers

AutoNext ==
  \/ WGet \/ WMute \/ WSync \/ WSyncDone \/ WNormal \/ WCheck \/ WWrite
  \/ WFlush \/ WFinFlag \/ WFinIndex
  \/ RRead \/ ROnUnitsRemaining \/ RNotify
  \/ PCheck \/ PEnqueue
  \/ BackgroundConnect
  \/ SpeakBegin \/ SpeakReadFlag \/ SpeakReadIndex \/ SpeakReadQueue
  \/ SpeakEnqueue \/ Cancel \/ CancelFromSpeak
  \/ CancelBump \/ CancelClear \/ CancelSweep \/ CancelMute
  \/ CancelRestore \/ CancelNotify \/ CancelReturn \/ SetParameter

AutoCancelSpec == Init /\ [][AutoNext]_vars

\* speak() decides; speak() queues its item
SpeakDecides == cpc = "a_queue" /\ cpc' # "a_queue"
SpeakQueues == cpc = "s_enqueue" /\ cpc' = "idle"

\* C35: a sequence of more than one text character cancels when prior
\* speech was there each time speak() looked, and does not cancel when none
\* was there any time it looked; a sequence of at most one character never
\* cancels; and the item speak() queues carries the current generation,
\* which after a cancel is later than the one speak() started with.
C35_AutoCancelExactly ==
  [][/\ SpeakDecides =>
          /\ speakHistory'.always => autoCancel'
          /\ ~speakHistory'.ever => ~autoCancel'
     /\ SpeakQueues =>
          /\ speakArgs[1] <= 1 => ~autoCancel
          /\ writeQueue'[Len(writeQueue')].generation = cancelGeneration
          /\ autoCancel => cancelGeneration > speakHistory.generation]_vars

\* every chunk of an item has been taken by the port
FullyWritten(it) ==
  lastWrite.id = it.id /\ lastWrite.chunk = ChunkCount(it.data) - 1

\* the finally clause of the write loop puts the item's indexes in the
\* pending queue
ExtendsPending ==
  /\ wpc = "fin_index" /\ wpc' = "get"
  /\ Len(pendingIndexes') > Len(pendingIndexes)

\* C37: the write loop adds an item's indexes to the pending queue and sets
\* the speaking flag only when every chunk of the item has been written and
\* the item's generation is the current one.
C37_IndexesOnlyAfterFullWrite ==
  [][ExtendsPending =>
       /\ FullyWritten(item)
       /\ item.generation = cancelGeneration]_vars

\* ------------------------------------------------ done speaking, at last
\* Spec with a poll loop that goes on for as long as speech is pending: a
\* poll is not an event of the budget here.  The loop waits while a query
\* of an earlier turn is still queued or its reply is still unread, which
\* is what its sleep of one poll interval amounts to.
MaxUnread == 1

IsQueryQueued == \E i \in 1..Len(writeQueue) : IsQuery(writeQueue[i])

\* `shouldPoll = self._isSpeaking or bool(self._pendingIndexes)`
PollDue ==
  /\ ppc = "check"
  /\ isSpeaking \/ pendingIndexes # <<>>
  /\ ~IsQueryQueued /\ ~IsQuery(item) /\ deviceReplies < MaxUnread
  /\ ppc' = "enqueue"
  /\ UNCHANGED <<shared, writerVars, readerVars, callerVars, history,
                 counters>>
  /\ UNCHANGED extra

\* `if shouldPoll and self._getSerial() is not None: self._queueWrite(query)`
PollQueue ==
  /\ ppc = "enqueue"
  /\ ppc' = "check"
  /\ writeQueue' =
       IF serial # NoSerial
       THEN Append(writeQueue,
                   WriteItem(nextId, INDEX_QUERY_LEN, <<>>, cancelGeneration,
                             TRUE, FALSE, FALSE))
       ELSE writeQueue
  /\ UNCHANGED <<cancelGeneration, pendingIndexes, isSpeaking,
                 isWritingSpeech, serial, needsSettingsSync,
                 settingsSyncQueued, settingsRevision, connectThread,
                 deviceReplies>>
  /\ UNCHANGED <<writerVars, readerVars, callerVars, history, counters>>
  /\ UNCHANGED extra

\* The steps of each thread.  With one utterance and no setting command
\* speak() never cancels and no item is written with a flush.
WriteThread ==
  \/ WGet \/ WMute \/ WSync \/ WSyncDone \/ WNormal \/ WCheck \/ WWrite
  \/ WFinFlag \/ WFinIndex
ReadThread == RRead \/ ROnUnitsRemaining \/ RNotify
PollThread == PollDue \/ PollQueue
CallerReturns ==
  \/ SpeakEnqueue \/ CancelBump \/ CancelClear \/ CancelSweep
  \/ CancelMute \/ CancelRestore \/ CancelNotify \/ CancelReturn

\* the device answers a query with zero units remaining
ReportsZero == RRead /\ rpc' = "units" /\ unitsRemaining' = 0

\* the host speaks one utterance here and cancels once; it leaves the
\* settings alone
MaxUtterances == 1
MaxCancels == 1
SpeakOnce == speakCount < MaxUtterances /\ Speak
CancelOnce == cancelCount < MaxCancels /\ Cancel

DoneNext ==
  \/ WriteThread \/ ReadThread \/ PollThread \/ BackgroundConnect
  \/ SpeakOnce \/ CancelOnce \/ CallerReturns

DoneSpec ==
  /\ Init /\ [][DoneNext]_vars
  /\ WF_vars(WriteThread) /\ WF_vars(ReadThread) /\ WF_vars(PollThread)
  /\ WF_vars(CallerReturns) /\ WF_vars(BackgroundConnect)
  /\ SF_vars(ReportsZero)

\* an utterance waits in the write queue
SpeechQueued == \E i \in 1..Len(writeQueue) : IsSpeech(writeQueue[i])

\* C38: an utterance that speak() has queued is followed by a 'done
\* speaking' notification: whatever number of notifications the earlier
\* utterances have had when it is queued, one more comes.
C38_UtteranceEndsWithDone ==
  \A d \in 0..(MaxUtterances - 1) :
    (SpeechQueued /\ doneCount = d) ~> (doneCount > d)

\* ---------------------------------------------------------- the locks
\* What each thread does to the engine's locks.  A call is the list of its
\* acquire and release steps in program order; every call releases what it
\* acquired, so a thread runs its calls one after the other in any order.
Locks == {"connect", "serialIo", "serial", "index", "writeState",
          "pollSuspend", "romInfo"}
LockThreads == Threads \cup {"poll"}

lockOthers == <<shared, writerVars, readerVars, pollVars, callerVars,
                history, counters, lifeVars, timedVars, speakVars,
                paramVars, indexVars, formantVars, textVars, loopVars,
                prefixVars, backoffVars, syncVars, autoVars>>

\* _serialIoLock is a threading.RLock, the others are threading.Lock
Reentrant(l) == l = "serialIo"

\* `with self._<l>Lock:` around a body
With(l, body) == <<<<"acq", l>>>> \o body \o <<<<"rel", l>>>>

\* _getSerial
getSerialLocks == With("serial", <<>>)

\* _clearIndexes
clearIndexesLocks == With("index", <<>>)

\* Variant of disconnectLocks that takes the handle lock first.
disconnectLocks_HandleFirst ==
  With("serial", With("serialIo", <<>>)) \o clearIndexesLocks

\* _disconnect: the handle is taken away under both locks, the port is
\* closed with none, then _clearIndexes()
disconnectLocks == With("serialIo", With("serial", <<>>)) \o clearIndexesLocks

\* _suspendPollingAfterWrite: _getSerial(), then the poll-suspend lock
suspendPollingAfterWriteLocks == getSerialLocks \o With("pollSuspend", <<>>)

\* writeBytes, for one hold of the I/O lock: the write succeeds (or the
\* item is stale), or it raises and _disconnect() runs inside the lock
writeBytesLocks ==
  {With("serialIo", <<>>) \o suspendPollingAfterWriteLocks,
   With("serialIo", <<>>),
   With("serialIo", disconnectLocks)}

\* _ensureConnected: everything under the connect lock: the backoff test,
\* _getSerial(), the probes (writeAndFlush under the I/O lock), and with a
\* device found _initPort and the publication of the handle
ensureConnectedLocks ==
  {With("connect", <<>>),
   With("connect", getSerialLocks),
   With("connect", getSerialLocks \o With("serialIo", <<>>)),
   With("connect", getSerialLocks \o With("serialIo", <<>>)
                     \o With("serialIo", <<>>) \o With("serial", <<>>))}

\* _writeLoop: _getSerial(), _ensureConnected() without a port, the writes,
\* the write-state flag around a speech item and the index lock after it
writeLoopLocks ==
  {getSerialLocks, With("writeState", <<>>), With("index", <<>>)}
    \cup ensureConnectedLocks \cup writeBytesLocks

\* _readLoop: _getSerial(), the pending count and _onUnitsRemaining under
\* the index lock, the ROM table under its lock, _disconnect() after a
\* failed read
readLoopLocks ==
  {getSerialLocks, With("index", <<>>), With("romInfo", <<>>),
   disconnectLocks}

\* _pollLoop
pollLoopLocks ==
  {With("pollSuspend", <<>>), With("index", <<>>), getSerialLocks}

\* speak(), cancel(), the setters and loadSettings on the caller's thread
callerLocks ==
  {With("writeState", <<>>), With("index", <<>>), getSerialLocks,
   clearIndexesLocks, With("romInfo", <<>>), With("pollSuspend", <<>>),
   disconnectLocks}
    \cup ensureConnectedLocks

Calls(t) ==
  CASE t = "caller" -> callerLocks
    [] t = "writer" -> writeLoopLocks
    [] t = "reader" -> readLoopLocks
    [] t = "poll" -> pollLoopLocks
    [] OTHER -> ensureConnectedLocks

\* a thread enters one of its calls
LockCall ==
  /\ \E t \in LockThreads :
       /\ lockPlan[t] = <<>>
       /\ \E call \in Calls(t) : lockPlan' = [lockPlan EXCEPT ![t] = call]
  /\ UNCHANGED <<lockHeld, lockOthers>>

MayAcquire(t, l) ==
  \/ lockHeld[l].owner = Free
  \/ lockHeld[l].owner = t /\ Reentrant(l)

\* a thread takes the lock it is at, if it may
LockAcquire ==
  /\ \E t \in LockThreads :
       /\ lockPlan[t] # <<>> /\ Head(lockPlan[t])[1] = "acq"
       /\ LET l == Head(lockPlan[t])[2] IN
            /\ MayAcquire(t, l)
            /\ lockHeld' = [lockHeld EXCEPT
                 ![l] = [owner |-> t, depth |-> lockHeld[l].depth + 1]]
       /\ lockPlan' = [lockPlan EXCEPT ![t] = Tail(lockPlan[t])]
  /\ UNCHANGED lockOthers

\* a thread leaves a `with` block
LockRelease ==
  /\ \E t \in LockThreads :
       /\ lockPlan[t] # <<>> /\ Head(lockPlan[t])[1] = "rel"
       /\ LET l == Head(lockPlan[t])[2] IN
            lockHeld' = [lockHeld EXCEPT
              ![l] = IF lockHeld[l].depth = 1
                     THEN [owner |-> Free, depth |-> 0]
                     ELSE [owner |-> t, depth |-> lockHeld[l].depth - 1]]
       /\ lockPlan' = [lockPlan EXCEPT ![t] = Tail(lockPlan[t])]
  /\ UNCHANGED lockOthers

LockNext == LockCall \/ LockAcquire \/ LockRelease

LockSpec == Init /\ [][LockNext]_vars

\* the locks a thread holds, the lock it is about to take, whom it waits for
Holds(t) == {l \in Locks : lockHeld[l].owner = t}
Wants(t) ==
  IF lockPlan[t] # <<>> /\ Head(lockPlan[t])[1] = "acq"
  THEN {Head(lockPlan[t])[2]} ELSE {}
WaitsFor(t, u) ==
  \E l \in Wants(t) : lockHeld[l].owner = u /\ ~MayAcquire(t, l)

RECURSIVE WaitChain(_, _)
WaitChain(from, n) ==
  IF n = 0 THEN from
  ELSE WaitChain(from \cup {u \in LockThreads :
                              \E t \in from : WaitsFor(t, u)}, n - 1)

\* t waits, directly or through others, for a lock that t itself holds
InWaitCycle(t) ==
  t \in WaitChain({u \in LockThreads : WaitsFor(t, u)},
                  Cardinality(LockThreads))

\* the order in which the locks nest
LockRank(l) ==
  CASE l = "connect" -> 1
    [] l = "serialIo" -> 2
    [] l = "serial" -> 3
    [] l = "index" -> 4
    [] l = "writeState" -> 5
    [] l = "pollSuspend" -> 6
    [] OTHER -> 7

\* C39: a thread takes a lock only while every other lock it holds comes
\* earlier in one fixed order, and no thread ever waits for a lock whose
\* holder waits, directly or through others, for a lock of that thread.
C39_LocksAcyclic ==
  /\ \A t \in LockThreads : \A l \in Wants(t) : \A h \in Holds(t) :
       h = l \/ LockRank(h) < LockRank(l)
  /\ \A t \in LockThreads : ~InWaitCycle(t)

\* the write thread holds the I/O lock inside a failed write and waits for
\* the index lock, while another thread waits for the I/O lock
C39_Witness ==
  /\ lockHeld["serialIo"].owner = "writer"
  /\ WaitsFor("writer", "reader") /\ "index" \in Wants("writer")
  /\ \E t \in LockThreads \ {"writer", "reader"} : WaitsFor(t, "writer")

\* ---------------------------------------------------------------- C40
\* C40: when two hex digits spell, in one nibble order or the other, a
\* count r within 0..pendingCount, decode_index_counter returns at least r,
\* and exactly r when the reading in the other order is beyond pendingCount.
C40_NeverBelowTrueCount ==
  (ixFunc = "decode_index_counter" /\ TwoHexDigits(ixBytes)) =>
    LET normal == 16 * HexValue(ixBytes[1]) + HexValue(ixBytes[2])
        swapped == 16 * HexValue(ixBytes[2]) + HexValue(ixBytes[1])
    IN \A r \in {v \in {normal, swapped} : v <= ixPending} :
         LET other == IF r = normal THEN swapped ELSE normal
         IN /\ ixResult # {}
            /\ \A v \in ixResult :
                 /\ v >= r
                 /\ other > ixPending => v = r

\* b"01" with 20 pending: a device that sends the low nibble first means 16,
\* one that sends the high nibble first means 1; 16 is returned
C40_Witness ==
  /\ ixFunc = "decode_index_counter"
  /\ ixBytes = <<"0", "1">> /\ ixPending = 20
  /\ ixResult = {16}

====
